---- MODULE Spec2Model ----
(***************************************************************************)
(* A model of the bGit repository engine (src/src/repository.rs and        *)
(* src/src/differ.rs): the ref store, the commit objects, the working      *)
(* tree, and the commit / checkout / branch / reset / merge / rebase       *)
(* workflows.                                                              *)
(*                                                                         *)
(* Strings of the program are sequences of tokens: the ref name            *)
(* "refs/heads/master" is <<"refs","heads","master">>, the file content    *)
(* "ref: refs/heads/master" is <<"ref:","refs","heads","master">>, a       *)
(* 40-hex object id is a one-token string <<"c1">>, the empty string is    *)
(* <<>>.  The SHA-1 of a commit is modelled by an injective naming: the    *)
(* k-th distinct commit content stored is named OidNames[k], and storing   *)
(* an equal content again yields the same name (content addressing).       *)
(* A tree object is named by its entries, a blob by its lines.             *)
(*                                                                         *)
(* Failures of the file system and of the diff3 program are not modelled.  *)
(***************************************************************************)
EXTENDS Integers, Sequences, FiniteSets, TLC

\* ---------------------------------------------------------------- bounds
\* The number of distinct commit objects a run may store.
MaxCommits == 3
\* The clock (one-second resolution) reads 0..MaxTime.
MaxTime == 0
\* The number of objects a run of hash_object calls may store.
MaxObjects == 3
\* The number of objects a run of create_tree calls may store.
MaxStored == 4

\* ------------------------------------------------------ program constants
HEAD == <<"HEAD">>
MERGE_HEAD == <<"MERGE_HEAD">>

\* ------------------------------------------------------------ input sets
\* Branch names given to branch / checkout / merge / rebase.
BranchNames == {"master", "feature"}
\* Commit messages: one line of text, and the empty and a blank
\* (whitespace-only) one.
Texts == { <<"m1">> }
Blanks == { <<>>, <<" ">> }
Messages == Texts \cup Blanks
\* Working-tree file names, in byte order of their tree entries:
\* "f" and "f x" (a name holding a blank).
FileOrder == << <<"f">>, <<"f", "x">> >>
FileNames == {FileOrder[i] : i \in 1..Len(FileOrder)}
\* What the user writes into a file: one line of text.
UserContents == { <<"a">> }
\* The directory contents the user commits: empty, a file "f", a file "f x".
UserTrees == { <<>> } \cup {(n :> c) : n \in FileNames, c \in UserContents}

\* The names of the commit objects, in order of first storage.
OidNames == <<"c1", "c2", "c3", "c4", "c5", "c6", "c7", "c8",
              "c9", "c10", "c11", "c12", "c13", "c14", "c15", "c16">>
OidTokens == {OidNames[i] : i \in 1..Len(OidNames)}
Oid(i) == <<OidNames[i]>>
OidIndex(value) == CHOOSE i \in 1..Len(OidNames) : OidNames[i] = value[1]

Range(s) == {s[i] : i \in 1..Len(s)}
Min(S) == CHOOSE x \in S : \A y \in S : x <= y

\* `let v = ...;` of the source: the value is computed once and named.
With(v, F(_)) == F(v)

VARIABLES
    refs,       \* the ref files under .bgit: ref name -> trimmed file content
    commits,    \* the stored commit objects, in order of first storage
    worktree,   \* the working directory: file name -> content (lines)
    last        \* the last operation called and how it ended

vars == <<refs, commits, worktree, last>>

\* ------------------------------------------------------------- ref store

\* len == 40 and all hex digits.
is_hash(value) == Len(value) = 1 /\ value[1] \in OidTokens

validate_commit_hash(hash) == is_hash(hash)

ErrRef == [ok |-> FALSE, name |-> <<>>, value |-> <<>>, is_symbolic |-> FALSE]

\* get_ref_internal following one symbolic link only.
get_ref_internal_one_step(rs, ref_name, deref) ==
    IF ref_name \notin DOMAIN rs THEN ErrRef
    ELSE IF Len(rs[ref_name]) > 0 /\ rs[ref_name][1] = "ref:" /\ deref
    THEN IF Tail(rs[ref_name]) \notin DOMAIN rs THEN ErrRef
         ELSE [ok |-> TRUE, name |-> Tail(rs[ref_name]), value |-> rs[Tail(rs[ref_name])],
               is_symbolic |-> Len(rs[Tail(rs[ref_name])]) > 0
                               /\ rs[Tail(rs[ref_name])][1] = "ref:"]
    ELSE [ok |-> TRUE, name |-> ref_name, value |-> rs[ref_name],
          is_symbolic |-> Len(rs[ref_name]) > 0 /\ rs[ref_name][1] = "ref:"]

\* Reads the ref file; a symbolic content ("ref: <target>") is followed when deref.
RECURSIVE get_ref_internal(_, _, _)
get_ref_internal(rs, ref_name, deref) ==
    IF ref_name \notin DOMAIN rs THEN ErrRef
    ELSE IF Len(rs[ref_name]) > 0 /\ rs[ref_name][1] = "ref:" /\ deref
    THEN get_ref_internal(rs, Tail(rs[ref_name]), deref)
    ELSE [ok |-> TRUE, name |-> ref_name, value |-> rs[ref_name],
          is_symbolic |-> Len(rs[ref_name]) > 0 /\ rs[ref_name][1] = "ref:"]

get_ref(rs, ref_name, deref) == get_ref_internal(rs, ref_name, deref)

RefValue(value, is_symbolic) == [value |-> value, is_symbolic |-> is_symbolic]

\* set_ref without the dereference: the value is written at ref_name itself.
set_ref_at_name(rs, ref_name, ref_value, deref) ==
    (ref_name :> (IF ref_value.is_symbolic THEN <<"ref:">> \o ref_value.value
                  ELSE ref_value.value)) @@ rs

\* Writes at the dereferenced location when it resolves, else at ref_name itself.
set_ref(rs, ref_name, ref_value, deref) ==
    With(get_ref_internal(rs, ref_name, deref), LAMBDA r :
        ((IF r.ok THEN r.name ELSE ref_name)
            :> (IF ref_value.is_symbolic THEN <<"ref:">> \o ref_value.value
                ELSE ref_value.value)) @@ rs)

\* Removes the resolved ref file; fails when it does not resolve.
delete_ref(rs, ref_name, deref) ==
    With(get_ref_internal(rs, ref_name, deref), LAMBDA r :
        IF ~r.ok THEN [ok |-> FALSE, refs |-> rs]
        ELSE [ok |-> TRUE, refs |-> [n \in (DOMAIN rs) \ {r.name} |-> rs[n]]])

ErrStr == [ok |-> FALSE, val |-> <<>>]
OkStr(v) == [ok |-> TRUE, val |-> v]

\* refs_to_try with the branches looked up before the tags.
refs_to_try_heads_first(value_to_search) ==
    << value_to_search,
       <<"refs">> \o value_to_search,
       <<"refs", "heads">> \o value_to_search,
       <<"refs", "tags">> \o value_to_search >>

\* The names a value is looked up under, in this order.
refs_to_try(value_to_search) ==
    << value_to_search,
       <<"refs">> \o value_to_search,
       <<"refs", "tags">> \o value_to_search,
       <<"refs", "heads">> \o value_to_search >>

\* A hash is returned as is; a name is looked up as a ref, and the first ref
\* that resolves gives the value.
get_oid_hash(rs, value) ==
    With(IF value = <<"@">> THEN HEAD ELSE value, LAMBDA value_to_search :
        IF is_hash(value_to_search) THEN OkStr(value_to_search)
        ELSE With({i \in 1..4 : get_ref(rs, refs_to_try(value_to_search)[i], TRUE).ok},
                  LAMBDA found :
            IF found = {} THEN ErrStr
            ELSE OkStr(get_ref(rs, refs_to_try(value_to_search)[Min(found)],
                               TRUE).value)))

is_branch(rs, value) ==
    With(get_ref(rs, <<"refs", "heads">> \o value, FALSE), LAMBDA r :
        r.ok /\ r.value # <<>>)

\* [res |-> "ok", some, name] | "err" (HEAD unreadable) | "panic" (the assertion).
get_branch_name(rs) ==
    With(get_ref(rs, HEAD, FALSE), LAMBDA head_ref :
        IF ~head_ref.ok THEN [res |-> "err", some |-> FALSE, name |-> <<>>]
        ELSE IF ~head_ref.is_symbolic
        THEN [res |-> "ok", some |-> FALSE, name |-> <<>>]
        ELSE IF ~(Len(head_ref.value) >= 3
                  /\ SubSeq(head_ref.value, 1, 3) = <<"ref:", "refs", "heads">>)
        THEN [res |-> "panic", some |-> FALSE, name |-> <<>>]
        ELSE [res |-> "ok", some |-> TRUE,
              name |-> SubSeq(head_ref.value, 4, Len(head_ref.value))])

\* ---------------------------------------------------------- object store

\* The object named by a hash is stored.
IsStored(cs, value) == is_hash(value) /\ OidIndex(value) <= Len(cs)

\* hash_object writing every object to one file: the object stored last is
\* overwritten.
hash_object_in_place(cs, data) ==
    IF cs = <<>> THEN [commits |-> <<data>>, oid |-> Oid(1)]
    ELSE [commits |-> [cs EXCEPT ![Len(cs)] = data], oid |-> Oid(Len(cs))]

\* Content addressing of a commit object: equal content, equal name.
hash_object(cs, data) ==
    IF \E i \in 1..Len(cs) : cs[i] = data
    THEN [commits |-> cs, oid |-> Oid(CHOOSE i \in 1..Len(cs) : cs[i] = data)]
    ELSE [commits |-> Append(cs, data), oid |-> Oid(Len(cs) + 1)]

\* A blank line is empty or whitespace.
IsBlank(line) == line \in {"", " "}

\* String::trim_end on the message lines read back.
RECURSIVE TrimEnd(_)
TrimEnd(lines) ==
    IF lines = <<>> THEN <<>>
    ELSE IF IsBlank(lines[Len(lines)]) THEN TrimEnd(SubSeq(lines, 1, Len(lines) - 1))
    ELSE lines

ErrCommit == [ok |-> FALSE, oid |-> <<>>, tree |-> <<>>, parents |-> <<>>,
              timestamp |-> 0, message |-> <<>>]

\* The parse of the commit text; _oid is the resolved argument.
ParsedCommit(oid, c) ==
    [ok |-> TRUE, oid |-> oid, tree |-> c.tree, parents |-> c.parents,
     timestamp |-> c.timestamp, message |-> TrimEnd(c.message)]

\* get_oid_hash of the argument, then get_object (which resolves once more)
\* and the parse of the commit text.
get_commit(rs, cs, hash) ==
    With(get_oid_hash(rs, hash), LAMBDA h :
        IF ~h.ok THEN ErrCommit
        ELSE With(get_oid_hash(rs, h.val), LAMBDA o :
            IF ~o.ok \/ ~IsStored(cs, o.val) THEN ErrCommit
            ELSE ParsedCommit(h.val, cs[OidIndex(o.val)])))

\* ------------------------------------------------------------ tree codec

\* The files of a directory, in the order of their entries.
Present(wt) == SelectSeq(FileOrder, LAMBDA n : n \in DOMAIN wt)

\* The entries of a flat directory.
TreeEntries(wt, present) ==
    [i \in 1..Len(present) |->
        [mode |-> "100644", name |-> present[i], blob |-> wt[present[i]]]]

\* The tree object of a flat directory: one "100644 <name>\0<blob>" entry per
\* file, sorted.
create_tree(wt) == TreeEntries(wt, Present(wt))

\* The entries as read back: the name is the first whitespace-separated word
\* after the mode.
get_tree_data(tree) ==
    [i \in 1..Len(tree) |->
        [mode |-> tree[i].mode, name |-> <<tree[i].name[1]>>, blob |-> tree[i].blob]]

RECURSIVE WriteEntries(_, _)
WriteEntries(entries, wt) ==
    IF entries = <<>> THEN wt
    ELSE WriteEntries(Tail(entries), (Head(entries).name :> Head(entries).blob) @@ wt)

\* Empties the directory, then writes every entry under its parsed name.
read_tree(tree) == WriteEntries(get_tree_data(tree), <<>>)

\* --------------------------------------------------------------- commit

Repo(rs, cs, wt) == [refs |-> rs, commits |-> cs, worktree |-> wt]

\* message.trim().is_empty()
IsEmptyMessage(message) == \A i \in 1..Len(message) : IsBlank(message[i])

\* Only MERGE_HEAD's value gives a parent line.
CommitParentsOfMerge(parent_hash, merge_head) ==
    IF merge_head.ok THEN << merge_head.value >> ELSE <<>>

\* The parent lines of a new commit: HEAD's commit when HEAD resolves to a
\* hash, then MERGE_HEAD's value when that ref exists.
CommitParents(parent_hash, merge_head) ==
    (IF parent_hash.ok /\ is_hash(parent_hash.value)
     THEN << parent_hash.value >> ELSE <<>>)
    \o (IF merge_head.ok THEN << merge_head.value >> ELSE <<>>)

\* The refs once MERGE_HEAD, if present, is removed.
WithoutMergeHead(rs, merge_head) ==
    IF merge_head.ok THEN delete_ref(rs, MERGE_HEAD, FALSE).refs ELSE rs

\* The message is looked at once the commit object is stored.
create_commit_checking_last(R, message, ts) ==
    With(hash_object(R.commits,
             [tree |-> create_tree(R.worktree),
              parents |-> CommitParents(get_ref(R.refs, HEAD, TRUE),
                                        get_ref(R.refs, MERGE_HEAD, TRUE)),
              timestamp |-> ts,
              message |-> message]), LAMBDA h :
        IF IsEmptyMessage(message)
        THEN [ok |-> FALSE, oid |-> <<>>, R |-> Repo(R.refs, h.commits, R.worktree)]
        ELSE [ok |-> TRUE, oid |-> h.oid,
              R |-> Repo(set_ref(WithoutMergeHead(R.refs, get_ref(R.refs, MERGE_HEAD, TRUE)),
                                 HEAD, RefValue(h.oid, FALSE), TRUE),
                         h.commits, R.worktree)])

create_commit(R, message, ts) ==
    IF IsEmptyMessage(message) THEN [ok |-> FALSE, oid |-> <<>>, R |-> R]
    ELSE With(get_ref(R.refs, MERGE_HEAD, TRUE), LAMBDA merge_head :
         With(hash_object(R.commits,
                  [tree |-> create_tree(R.worktree),
                   parents |-> CommitParents(get_ref(R.refs, HEAD, TRUE), merge_head),
                   timestamp |-> ts,
                   message |-> message]), LAMBDA h :
            [ok |-> TRUE, oid |-> h.oid,
             R |-> Repo(set_ref(WithoutMergeHead(R.refs, merge_head), HEAD,
                                RefValue(h.oid, FALSE), TRUE),
                        h.commits, R.worktree)]))

\* -------------------------------------------------------------- checkout

\* CheckoutHead without the branch case: HEAD always holds the resolved hash.
CheckoutHeadDirect(rs, value, commit_hash, branch) ==
    set_ref(rs, HEAD, RefValue(commit_hash, FALSE), FALSE)

\* HEAD after a checkout: symbolic to the branch when the argument names one,
\* else the resolved hash.
CheckoutHead(rs, value, commit_hash, branch) ==
    set_ref(rs, HEAD,
            RefValue(IF branch THEN <<"refs", "heads">> \o value ELSE commit_hash,
                     branch),
            FALSE)

checkout(R, value) ==
    With(get_oid_hash(R.refs, value), LAMBDA commit_hash :
        IF ~commit_hash.ok \/ ~validate_commit_hash(commit_hash.val)
        THEN [ok |-> FALSE, R |-> R]
        ELSE With(get_commit(R.refs, R.commits, commit_hash.val), LAMBDA commit :
            IF ~commit.ok THEN [ok |-> FALSE, R |-> R]
            ELSE [ok |-> TRUE,
                  R |-> Repo(CheckoutHead(R.refs, value, commit_hash.val,
                                          is_branch(R.refs, value)),
                             R.commits, read_tree(commit.tree))]))

\* ------------------------------------------------------- branch and tag

create_branch(R, branch_name, some, commit_hash) ==
    With(get_ref_internal(R.refs, HEAD, TRUE), LAMBDA head_value :
        IF ~some /\ ~head_value.ok THEN [ok |-> FALSE, R |-> R]
        ELSE [ok |-> TRUE,
              R |-> Repo(set_ref(R.refs, <<"refs", "heads">> \o branch_name,
                                 RefValue(IF some THEN commit_hash
                                          ELSE head_value.value, FALSE),
                                 TRUE),
                         R.commits, R.worktree)])

create_tag(R, tag_name, commit_hash) ==
    IF ~validate_commit_hash(commit_hash) THEN [ok |-> FALSE, R |-> R]
    ELSE [ok |-> TRUE,
          R |-> Repo(set_ref(R.refs, <<"refs", "tags">> \o tag_name,
                             RefValue(commit_hash, FALSE), TRUE),
                     R.commits, R.worktree)]

\* ----------------------------------------------------------------- reset

reset(R, commit_hash) ==
    With(get_commit(R.refs, R.commits, commit_hash), LAMBDA commit :
        IF ~commit.ok THEN [ok |-> FALSE, R |-> R]
        ELSE [ok |-> TRUE,
              R |-> Repo(set_ref(R.refs, HEAD, RefValue(commit_hash, FALSE), TRUE),
                         R.commits, read_tree(commit.tree))])

\* ---------------------------------------------------------- commit graph

ErrList == [ok |-> FALSE, val |-> <<>>]
OkList(l) == [ok |-> TRUE, val |-> l]

\* The loop of iter_commits_and_parents: the deque is popped at the back.
RECURSIVE iter_loop(_, _, _, _)
iter_loop(rs, cs, queue, result) ==
    IF queue = <<>> THEN OkList(result)
    ELSE IF queue[Len(queue)] \in Range(result)
    THEN iter_loop(rs, cs, SubSeq(queue, 1, Len(queue) - 1), result)
    ELSE With(get_commit(rs, cs, queue[Len(queue)]), LAMBDA commit :
        IF ~commit.ok THEN ErrList
        ELSE iter_loop(rs, cs, SubSeq(queue, 1, Len(queue) - 1) \o commit.parents,
                       Append(result, queue[Len(queue)])))

\* The list of a walk, last commit first.
ReverseList(r) == [r EXCEPT !.val = [i \in 1..Len(r.val) |-> r.val[Len(r.val) + 1 - i]]]

\* iter_commits_and_parents returning its list back to front.
iter_commits_and_parents_reversed(rs, cs, oids) == ReverseList(iter_loop(rs, cs, oids, <<>>))

iter_commits_and_parents(rs, cs, oids) == iter_loop(rs, cs, oids, <<>>)

\* ancestors_loop without the test for a commit already listed.
RECURSIVE ancestors_loop_unmarked(_, _, _, _)
ancestors_loop_unmarked(rs, cs, queue, ancestors) ==
    IF queue = <<>> THEN OkList(ancestors)
    ELSE With(get_commit(rs, cs, Head(queue)), LAMBDA commit :
        IF ~commit.ok THEN ErrList
        ELSE ancestors_loop_unmarked(rs, cs, Tail(queue) \o commit.parents,
                                     Append(ancestors, Head(queue))))

\* The loop of get_commit_ancestors: a queue popped at the front.
RECURSIVE ancestors_loop(_, _, _, _)
ancestors_loop(rs, cs, queue, ancestors) ==
    IF queue = <<>> THEN OkList(ancestors)
    ELSE IF Head(queue) \in Range(ancestors)
    THEN ancestors_loop(rs, cs, Tail(queue), ancestors)
    ELSE With(get_commit(rs, cs, Head(queue)), LAMBDA commit :
        IF ~commit.ok THEN ErrList
        ELSE ancestors_loop(rs, cs, Tail(queue) \o commit.parents,
                            Append(ancestors, Head(queue))))

\* get_commit_ancestors with the walk of iter_commits_and_parents (popped at
\* the back).
get_commit_ancestors_lifo(rs, cs, commit_hash) ==
    iter_commits_and_parents(rs, cs, <<commit_hash>>)

get_commit_ancestors(rs, cs, commit_hash) ==
    ancestors_loop(rs, cs, <<commit_hash>>, <<>>)

\* The first element of ancestors1 that ancestors2 contains.
FirstCommon(ancestors1, ancestors2) ==
    With({i \in 1..Len(ancestors1) : ancestors1[i] \in Range(ancestors2)},
         LAMBDA common :
            IF common = {} THEN ErrStr ELSE OkStr(ancestors1[Min(common)]))

\* The merge base of two resolved commits.
MergeBaseOf(rs, cs, commit1, commit2) ==
    IF commit1 = commit2 THEN OkStr(commit1)
    ELSE With(get_commit_ancestors(rs, cs, commit1), LAMBDA ancestors1 :
         With(get_commit_ancestors(rs, cs, commit2), LAMBDA ancestors2 :
            IF ~ancestors1.ok \/ ~ancestors2.ok THEN ErrStr
            ELSE FirstCommon(ancestors1.val, ancestors2.val)))

get_merge_base(rs, cs, commit_hash1, commit_hash2) ==
    With(get_oid_hash(rs, commit_hash1), LAMBDA commit1 :
    With(get_oid_hash(rs, commit_hash2), LAMBDA commit2 :
        IF ~commit1.ok \/ ~commit2.ok THEN ErrStr
        ELSE MergeBaseOf(rs, cs, commit1.val, commit2.val)))

\* ---------------------------------------------------------------- differ

None == [some |-> FALSE, v |-> <<>>]
Some(x) == [some |-> TRUE, v |-> x]

\* The entry a tree holds under a (parsed) name, as compare_trees records it:
\* the last one read.
LastAt(data, at) ==
    IF at = {} THEN None ELSE Some(data[CHOOSE i \in at : \A j \in at : j <= i].blob)

\* The blob a tree holds at a path.
OidAt(tree, path) ==
    LastAt(get_tree_data(tree),
           {i \in 1..Len(tree) : get_tree_data(tree)[i].name = path})

\* The paths of compare_trees' rows.
ComparedPaths(trees) ==
    UNION { {get_tree_data(trees[k])[i].name : i \in 1..Len(trees[k])}
            : k \in 1..Len(trees) }

\* diff3 -m mine older yours, on whole files.
Diff3(mine, older, yours) ==
    IF mine = yours THEN mine
    ELSE IF older = mine THEN yours
    ELSE IF older = yours THEN mine
    ELSE <<"<<<<<<<">> \o mine \o <<"|||||||">> \o older \o <<"=======">>
         \o yours \o <<">>>>>>>">>

\* In a conflict the content of head is the result.
merge_blobs_favoring_head(o_base, o_head, o_other) ==
    IF o_base = o_head /\ o_head = o_other THEN o_base.v
    ELSE IF o_head = o_other THEN o_head.v
    ELSE IF o_base = o_head THEN o_other.v
    ELSE o_head.v

merge_blobs_three_way(o_base, o_head, o_other) ==
    IF o_base = o_head /\ o_head = o_other THEN o_base.v
    ELSE IF o_head = o_other THEN o_head.v
    ELSE IF o_base = o_head THEN o_other.v
    ELSE IF o_base = o_other THEN o_head.v
    ELSE Diff3(o_head.v, o_base.v, o_other.v)

\* path -> merged content, for the blob rows that head or other holds.
merge_trees(t_head, t_other, t_base) ==
    [p \in {q \in ComparedPaths(<<t_base, t_head, t_other>>) :
                OidAt(t_head, q).some \/ OidAt(t_other, q).some}
        |-> merge_blobs_three_way(OidAt(t_base, p), OidAt(t_head, p),
                                  OidAt(t_other, p))]

\* Empties the directory and writes the merged files.
read_tree_merged(head_tree_oid, other_tree_oid, base_tree_oid) ==
    merge_trees(head_tree_oid, other_tree_oid, base_tree_oid)

\* ----------------------------------------------------------------- merge

MergeOut(res, path, R) == [res |-> res, path |-> path, R |-> R]

\* The fast-forward: the other tree is read and HEAD is set to the other
\* branch's value.
FastForward(R, branch_ref, branch_head_commit) ==
    MergeOut("ok", "ff",
        Repo(set_ref(R.refs, HEAD, RefValue(branch_ref.value, FALSE), FALSE),
             R.commits, read_tree(branch_head_commit.tree)))

\* ThreeWay without the removal of MERGE_HEAD.
ThreeWayKeepingMergeHead(R, branch_ref, curr_head_commit, branch_head_commit, base_commit) ==
    MergeOut("ok", "3way",
        Repo(set_ref(R.refs, MERGE_HEAD, RefValue(branch_ref.value, FALSE), FALSE),
             R.commits,
             read_tree_merged(curr_head_commit.tree, branch_head_commit.tree,
                              base_commit.tree)))

\* The three-way merge: MERGE_HEAD is set, the merged tree is written, then
\* MERGE_HEAD is removed.
ThreeWay(R, branch_ref, curr_head_commit, branch_head_commit, base_commit) ==
    MergeOut("ok", "3way",
        Repo(delete_ref(set_ref(R.refs, MERGE_HEAD,
                                RefValue(branch_ref.value, FALSE), FALSE),
                        MERGE_HEAD, FALSE).refs,
             R.commits,
             read_tree_merged(curr_head_commit.tree, branch_head_commit.tree,
                              base_commit.tree)))

\* MergeCommits with the fast-forward test made against the other commit.
MergeCommitsByOther(R, branch_ref, curr_head_commit, branch_head_commit) ==
    With(get_merge_base(R.refs, R.commits, curr_head_commit.oid,
                        branch_head_commit.oid), LAMBDA mb :
        IF ~mb.ok THEN MergeOut("err", "", R)
        ELSE With(get_commit(R.refs, R.commits, mb.val), LAMBDA base_commit :
            IF ~base_commit.ok THEN MergeOut("panic", "", R)
            ELSE IF base_commit.oid = branch_head_commit.oid
            THEN FastForward(R, branch_ref, branch_head_commit)
            ELSE ThreeWay(R, branch_ref, curr_head_commit, branch_head_commit,
                          base_commit)))

\* merge, once both head commits are read.
MergeCommits(R, branch_ref, curr_head_commit, branch_head_commit) ==
    With(get_merge_base(R.refs, R.commits, curr_head_commit.oid,
                        branch_head_commit.oid), LAMBDA mb :
        IF ~mb.ok THEN MergeOut("err", "", R)
        ELSE With(get_commit(R.refs, R.commits, mb.val), LAMBDA base_commit :
            IF ~base_commit.ok THEN MergeOut("panic", "", R)
            ELSE IF base_commit.oid = curr_head_commit.oid
            THEN FastForward(R, branch_ref, branch_head_commit)
            ELSE ThreeWay(R, branch_ref, curr_head_commit, branch_head_commit,
                          base_commit)))

\* merge recording the merged branch's commit in HEAD on either path.
merge_advancing_head(R, branch_name) ==
    With(get_ref(R.refs, HEAD, TRUE), LAMBDA head_ref :
    With(get_ref(R.refs, <<"refs", "heads">> \o branch_name, TRUE), LAMBDA branch_ref :
        IF ~head_ref.ok \/ ~branch_ref.ok THEN MergeOut("panic", "", R)
        ELSE With(get_commit(R.refs, R.commits, head_ref.value),
                  LAMBDA curr_head_commit :
             With(get_commit(R.refs, R.commits, branch_ref.value),
                  LAMBDA branch_head_commit :
                IF ~curr_head_commit.ok \/ ~branch_head_commit.ok
                THEN MergeOut("panic", "", R)
                ELSE With(MergeCommits(R, branch_ref, curr_head_commit,
                                       branch_head_commit), LAMBDA out :
                    IF out.res # "ok" THEN out
                    ELSE MergeOut(out.res, out.path,
                             Repo(set_ref(out.R.refs, HEAD,
                                          RefValue(branch_ref.value, FALSE), TRUE),
                                  out.R.commits, out.R.worktree)))))))

\* An unwrap of an Err is a panic.
merge(R, branch_name) ==
    With(get_ref(R.refs, HEAD, TRUE), LAMBDA head_ref :
    With(get_ref(R.refs, <<"refs", "heads">> \o branch_name, TRUE), LAMBDA branch_ref :
        IF ~head_ref.ok \/ ~branch_ref.ok THEN MergeOut("panic", "", R)
        ELSE With(get_commit(R.refs, R.commits, head_ref.value),
                  LAMBDA curr_head_commit :
             With(get_commit(R.refs, R.commits, branch_ref.value),
                  LAMBDA branch_head_commit :
                IF ~curr_head_commit.ok \/ ~branch_head_commit.ok
                THEN MergeOut("panic", "", R)
                ELSE MergeCommits(R, branch_ref, curr_head_commit,
                                  branch_head_commit)))))

\* ---------------------------------------------------------------- rebase

ReplayOut(ok, new_base, R) == [ok |-> ok, new_base |-> new_base, R |-> R]

\* ReplayOne committing under the message of the commit replayed onto.
ReplayOneTargetMessage(R, commit, target, base, ts) ==
    create_commit(Repo(R.refs, R.commits,
                       read_tree_merged(commit.tree, target.tree, base.tree)),
                  target.message, ts)

\* One commit replayed: the three trees are merged into the directory and
\* committed under the original message.
ReplayOne(R, commit, target, base, ts) ==
    create_commit(Repo(R.refs, R.commits,
                       read_tree_merged(commit.tree, target.tree, base.tree)),
                  commit.message, ts)

\* Step 6: the commits are replayed from the last of the list to the first.
RECURSIVE replay(_, _, _, _, _)
replay(R, todo, new_base, base_commit, tss) ==
    IF todo = <<>> THEN ReplayOut(TRUE, new_base, R)
    ELSE With(get_commit(R.refs, R.commits, todo[Len(todo)]), LAMBDA commit :
         With(get_commit(R.refs, R.commits, new_base), LAMBDA target :
         With(get_commit(R.refs, R.commits, base_commit), LAMBDA base :
            IF ~commit.ok \/ ~target.ok \/ ~base.ok
            THEN ReplayOut(FALSE, new_base, R)
            ELSE With(ReplayOne(R, commit, target, base, Head(tss)), LAMBDA c :
                IF ~c.ok THEN ReplayOut(FALSE, new_base, c.R)
                ELSE replay(c.R, SubSeq(todo, 1, Len(todo) - 1), c.oid,
                            base_commit, Tail(tss))))))

RebaseOut(res, R) == [res |-> res, R |-> R]

\* Step 7: the original branch, if any, is set to the new tip.
RebaseBranch(rs, original_branch, new_base) ==
    IF original_branch.some
    THEN set_ref(rs, <<"refs", "heads">> \o original_branch.name,
                 RefValue(new_base, FALSE), TRUE)
    ELSE rs

\* Step 8 deciding by the branch name of step 1 instead of original_head.
RebaseHeadByBranch(rs, original_head, original_branch, new_base) ==
    IF original_branch.some
    THEN set_ref(rs, HEAD,
                 RefValue(<<"ref:", "refs", "heads">> \o original_branch.name, TRUE),
                 FALSE)
    ELSE set_ref(rs, HEAD, RefValue(new_base, FALSE), FALSE)

\* Step 8: HEAD is set from original_head, the dereferenced HEAD of step 1.
RebaseHead(rs, original_head, original_branch, new_base) ==
    IF original_head.is_symbolic
    THEN set_ref(rs, HEAD,
                 RefValue(<<"ref:", "refs", "heads">> \o original_branch.name, TRUE),
                 FALSE)
    ELSE set_ref(rs, HEAD, RefValue(new_base, FALSE), FALSE)

\* Steps 5 to 8.
RebaseOnto(R, original_head, original_branch, target_oid, base_commit, commits_to_rebase, tss) ==
    With(checkout(R, target_oid), LAMBDA co :
        IF ~co.ok THEN RebaseOut("err", R)
        ELSE With(replay(co.R, commits_to_rebase, target_oid, base_commit, tss),
                  LAMBDA rp :
            IF ~rp.ok THEN RebaseOut("err", rp.R)
            ELSE RebaseOut("ok",
                     Repo(RebaseHead(RebaseBranch(rp.R.refs, original_branch,
                                                  rp.new_base),
                                     original_head, original_branch, rp.new_base),
                          rp.R.commits, rp.R.worktree))))

\* Steps 3 and 4.
RebaseFrom(R, original_head, original_branch, target_oid, current_head_oid, tss) ==
    With(get_merge_base(R.refs, R.commits, current_head_oid, target_oid),
         LAMBDA base_commit :
        IF ~base_commit.ok THEN RebaseOut("err", R)
        ELSE With(iter_commits_and_parents(R.refs, R.commits, <<current_head_oid>>),
                  LAMBDA all_commits :
             With(iter_commits_and_parents(R.refs, R.commits, <<base_commit.val>>),
                  LAMBDA base_commits :
                IF ~all_commits.ok \/ ~base_commits.ok THEN RebaseOut("err", R)
                ELSE RebaseOnto(R, original_head, original_branch, target_oid,
                         base_commit.val,
                         SelectSeq(all_commits.val,
                                   LAMBDA c : c \notin Range(base_commits.val)),
                         tss))))

\* tss: the clock readings of the commits created, in order.
rebase(R, target, tss) ==
    With(get_ref(R.refs, HEAD, TRUE), LAMBDA original_head :
    With(get_branch_name(R.refs), LAMBDA original_branch :
        IF ~original_head.ok THEN RebaseOut("err", R)
        ELSE IF original_branch.res # "ok" THEN RebaseOut(original_branch.res, R)
        ELSE With(get_oid_hash(R.refs, target), LAMBDA target_oid :
             With(get_oid_hash(R.refs, HEAD), LAMBDA current_head_oid :
                IF ~target_oid.ok \/ ~current_head_oid.ok THEN RebaseOut("err", R)
                ELSE RebaseFrom(R, original_head, original_branch, target_oid.val,
                                current_head_oid.val, tss)))))

\* ---------------------------------------------------------------- state

CurrentRepo == Repo(refs, commits, worktree)

\* The clock never runs backwards: a new commit is stamped no earlier than
\* any stored one.
Clock == {t \in 0..MaxTime : \A i \in 1..Len(commits) : commits[i].timestamp <= t}

\* The times of the commits one rebase creates, in order.
ClockRuns == {tss \in [1..MaxCommits -> Clock] :
                 \A i \in 1..(MaxCommits - 1) : tss[i] <= tss[i + 1]}

\* What the last call was and how it ended: its argument, its result
\* ("ok", "err", "panic"), and, for a merge, the path taken and the commit
\* HEAD resolved to before it.  A failed call records no more than its name.
Called(op, arg, res, info, head) ==
    IF res = "ok"
    THEN [op |-> op, arg |-> arg, res |-> res, info |-> info, head |-> head]
    ELSE [op |-> op, arg |-> <<>>, res |-> res, info |-> "", head |-> <<>>]

OkErr(ok) == IF ok THEN "ok" ELSE "err"

\* The arguments given where a commit is named: stored commits and ref names.
StoredOids == {Oid(i) : i \in 1..Len(commits)}
BranchArgs == {<<b>> : b \in BranchNames}
NameArgs == BranchArgs \cup {HEAD}

\* The repository after init: an empty master branch, HEAD symbolic to it.
Init ==
    /\ refs = (HEAD :> <<"ref:", "refs", "heads", "master">>)
              @@ (<<"refs", "heads", "master">> :> <<>>)
    /\ commits = <<>>
    /\ worktree = <<>>
    /\ last = Called("init", <<>>, "ok", "", <<>>)

\* The call returns: the repository is as the call left it.
Install(R, called) ==
    /\ Len(R.commits) <= MaxCommits
    /\ refs' = R.refs
    /\ commits' = R.commits
    /\ worktree' = R.worktree
    /\ last' = called

Returned(op, arg, r) == Install(r.R, Called(op, arg, OkErr(r.ok), "", <<>>))

\* A commit returns the hash of the commit it made.
CommitReturned(message, r) ==
    Install(r.R, Called("commit", message, OkErr(r.ok),
                        IF r.ok THEN r.oid[1] ELSE "", <<>>))

\* The user leaves the directory holding w and commits it.
Commit(w, message, ts) ==
    CommitReturned(message, create_commit(Repo(refs, commits, w), message, ts))

Checkout(value) == Returned("checkout", value, checkout(CurrentRepo, value))

Branch(name) == Returned("branch", name, create_branch(CurrentRepo, name, FALSE, <<>>))

BranchAt(name, hash) ==
    Returned("branch", name, create_branch(CurrentRepo, name, TRUE, hash))

Reset(hash) == Returned("reset", hash, reset(CurrentRepo, hash))

MergeReturned(name, head, r) == Install(r.R, Called("merge", name, r.res, r.path, head))

Merge(name) ==
    MergeReturned(name, get_ref(refs, HEAD, TRUE).value, merge(CurrentRepo, name))

RebaseReturned(target, r) == Install(r.R, Called("rebase", target, r.res, "", <<>>))

Rebase(target, tss) == RebaseReturned(target, rebase(CurrentRepo, target, tss))

\* The workflows on commits named by OID or by branch name.  A commit with a
\* blank message is tried on the directory as it stands.
Next ==
    \/ \E w \in UserTrees \cup {worktree}, m \in Texts, ts \in Clock : Commit(w, m, ts)
    \/ \E m \in Blanks, ts \in Clock : Commit(worktree, m, ts)
    \/ \E v \in NameArgs \cup StoredOids : Checkout(v)
    \/ \E b \in BranchArgs : Branch(b)
    \/ \E b \in BranchArgs, h \in StoredOids : BranchAt(b, h)
    \/ \E h \in StoredOids : Reset(h)
    \/ \E b \in BranchArgs : Merge(b)
    \/ \E v \in NameArgs \cup StoredOids, tss \in ClockRuns : Rebase(v, tss)

Spec == Init /\ [][Next]_vars

\* ------------------------------------------------- stores of merge history
\* get_merge_base and the choice merge makes are functions of the commit
\* graph.  They are applied to every single-rooted graph of up to MaxGraph
\* commits in which a commit has one or two parents: a commit gets a second
\* parent when it is made while MERGE_HEAD exists.

\* The number of commits of a drawn graph.
MaxGraph == 3

\* The parent lists a commit may have, given the commits stored before it.
ParentLists(earlier) ==
    {<<Oid(j)>> : j \in earlier}
    \cup {<<Oid(p[1]), Oid(p[2])>> : p \in {q \in earlier \X earlier : q[1] # q[2]}}

\* The i-th commit of a drawn graph, made in second i.
GraphCommit(i, parents) ==
    [tree |-> create_tree(<<>>), parents |-> parents, timestamp |-> i,
     message |-> <<"m1">>]

Graphs ==
    UNION { {g \in [1..n -> {GraphCommit(i, ps) : i \in 1..n,
                                 ps \in {<<>>} \cup ParentLists(1..(n - 1))}] :
                /\ g[1] = GraphCommit(1, <<>>)
                /\ \A i \in 2..n : \E ps \in ParentLists(1..(i - 1)) :
                                        g[i] = GraphCommit(i, ps)}
            : n \in 1..MaxGraph }

InitGraph ==
    /\ commits \in Graphs
    /\ \E on \in BranchArgs, m \in 1..MaxGraph, f \in 1..MaxGraph :
          /\ m <= Len(commits) /\ f <= Len(commits)
          /\ refs = (HEAD :> <<"ref:", "refs", "heads">> \o on)
                    @@ (<<"refs", "heads", "master">> :> Oid(m))
                    @@ (<<"refs", "heads", "feature">> :> Oid(f))
    /\ worktree = <<>>
    /\ last = Called("init", <<>>, "ok", "", <<>>)

MergeBaseReturned(a, b, r) ==
    /\ last' = Called("merge_base", a \o b, OkErr(r.ok),
                      IF r.ok THEN r.val[1] ELSE "", <<>>)
    /\ UNCHANGED <<refs, commits, worktree>>

MergeBase(a, b) == MergeBaseReturned(a, b, get_merge_base(refs, commits, a, b))

\* get_commit_ancestors called on a commit: the list it returns is kept.
AncestorsReturned(c, r) ==
    /\ last' = [op |-> "ancestors", arg |-> c, res |-> OkErr(r.ok), list |-> r.val]
    /\ UNCHANGED <<refs, commits, worktree>>

CommitAncestors(c) == AncestorsReturned(c, get_commit_ancestors(refs, commits, c))

\* iter_commits_and_parents called on one or two starting commits: the list
\* it returns is kept.
IterReturned(oids, r) ==
    /\ last' = [op |-> "iter", arg |-> oids, res |-> OkErr(r.ok), list |-> r.val]
    /\ UNCHANGED <<refs, commits, worktree>>

IterCommits(oids) == IterReturned(oids, iter_commits_and_parents(refs, commits, oids))

StartLists == {<<a>> : a \in StoredOids} \cup {<<a, b>> : a \in StoredOids, b \in StoredOids}

NextGraph ==
    \/ \E a \in StoredOids, b \in StoredOids : MergeBase(a, b)
    \/ \E b \in BranchArgs : Merge(b)
    \/ \E c \in StoredOids : CommitAncestors(c)
    \/ \E oids \in StartLists : IterCommits(oids)

SpecGraph == InitGraph /\ [][NextGraph]_vars

\* ------------------------------------------- branches at any given hash
\* create_branch takes the hash it is given as it is.  Here it is given the
\* hash of a stored commit or a hash that names no stored object, and
\* get_commit_ancestors is called on the commits made.

\* 40 hex digits that name no stored object.
NoObject == Oid(Len(OidNames))

NextBranch ==
    \/ \E m \in Texts, ts \in Clock : Commit(worktree, m, ts)
    \/ \E v \in NameArgs \cup StoredOids : Checkout(v)
    \/ \E b \in BranchArgs, h \in StoredOids \cup {NoObject} : BranchAt(b, h)
    \/ \E c \in StoredOids : CommitAncestors(c)

SpecBranch == Init /\ [][NextBranch]_vars

\* ------------------------------------------------------ stores to rebase
\* rebase is applied to every single-rooted graph of up to MaxGraph commits,
\* the i-th made in second i under a message of its own, with master and
\* feature at any of them and HEAD on one of the two.  The commits a rebase
\* makes are stamped in the second of the latest stored commit or in the next.

GraphMessages == <<"m1", "m2", "m3", "m4", "m5", "m6", "m7", "m8">>

\* The message given for the i-th commit: a line of its own, followed by a
\* blank line when i is even.
GraphMessage(i) == <<GraphMessages[i]>> \o (IF i % 2 = 0 THEN <<" ">> ELSE <<>>)

\* The graph g with the i-th commit under the i-th message.
WithMessages(g) == [i \in 1..Len(g) |-> [g[i] EXCEPT !.message = GraphMessage(i)]]

InitRebase ==
    /\ \E g \in Graphs : commits = WithMessages(g)
    /\ \E on \in BranchArgs, m \in 1..MaxGraph, f \in 1..MaxGraph :
          /\ m <= Len(commits) /\ f <= Len(commits)
          /\ refs = (HEAD :> <<"ref:", "refs", "heads">> \o on)
                    @@ (<<"refs", "heads", "master">> :> Oid(m))
                    @@ (<<"refs", "heads", "feature">> :> Oid(f))
    /\ worktree = <<>>
    /\ last = Called("init", <<>>, "ok", "", <<>>)

\* The second of the latest stored commit.
Latest == CHOOSE t \in {commits[i].timestamp : i \in 1..Len(commits)} :
              \A i \in 1..Len(commits) : commits[i].timestamp <= t

ReplayRuns == {tss \in [1..MaxGraph -> Latest..(Latest + 1)] :
                  \A i \in 1..(MaxGraph - 1) : tss[i] <= tss[i + 1]}

RebaseGraphReturned(target, r) ==
    /\ refs' = r.R.refs
    /\ commits' = r.R.commits
    /\ worktree' = r.R.worktree
    /\ last' = Called("rebase", target, r.res, "", <<>>)

\* A rebase of a store as drawn (or as an earlier rebase left it, when that
\* one made no new object).
RebaseGraph(target, tss) ==
    /\ Len(commits) <= MaxGraph
    /\ RebaseGraphReturned(target, rebase(CurrentRepo, target, tss))

\* The target is named by a branch, which may be at any commit, or by HEAD.
NextRebase == \E v \in NameArgs, tss \in ReplayRuns : RebaseGraph(v, tss)

SpecRebase == InitRebase /\ [][NextRebase]_vars

\* ------------------------------------------------------ stores in conflict
\* merge is applied to every store of three commits in which master and
\* feature each hold one commit on top of a common first commit, each of the
\* three with a directory of its own, HEAD on either branch and the directory
\* on disk that of HEAD's commit.

\* What the file "f" holds in the three commits.
ConflictContents == { <<"a">>, <<"b">>, <<"c">> }
ConflictDirs == { <<>> } \cup {(<<"f">> :> c) : c \in ConflictContents}

\* The i-th commit of a forked history.
ForkCommit(i, dir, parents) ==
    [tree |-> create_tree(dir), parents |-> parents, timestamp |-> i,
     message |-> <<"m1">>]

InitConflict ==
    /\ \E d_base \in ConflictDirs, d_master \in ConflictDirs, d_feature \in ConflictDirs :
          /\ commits = << ForkCommit(1, d_base, <<>>),
                          ForkCommit(2, d_master, <<Oid(1)>>),
                          ForkCommit(3, d_feature, <<Oid(1)>>) >>
          /\ \E on \in BranchArgs :
                /\ refs = (HEAD :> <<"ref:", "refs", "heads">> \o on)
                          @@ (<<"refs", "heads", "master">> :> Oid(2))
                          @@ (<<"refs", "heads", "feature">> :> Oid(3))
                /\ worktree = IF on = <<"master">> THEN d_master ELSE d_feature
    /\ last = Called("init", <<>>, "ok", "", <<>>)

NextConflict == \E name \in BranchArgs : Merge(name)

SpecConflict == InitConflict /\ [][NextConflict]_vars

\* ------------------------------------------------------ branches to replay
\* rebase is applied to every history of four commits in which the second
\* commit is made on the first and the third and the fourth have one or two
\* parents among the commits before them, each commit under a message of its
\* own, with master and feature at any of them and HEAD on one of the two.

ReplayShapes ==
    { WithMessages(<< GraphCommit(1, <<>>), GraphCommit(2, <<Oid(1)>>),
                      GraphCommit(3, p3), GraphCommit(4, p4) >>)
      : p3 \in ParentLists(1..2), p4 \in ParentLists(1..3) }

InitReplay ==
    /\ commits \in ReplayShapes
    /\ \E on \in BranchArgs, m \in 1..Len(commits), f \in 1..Len(commits) :
          refs = (HEAD :> <<"ref:", "refs", "heads">> \o on)
                 @@ (<<"refs", "heads", "master">> :> Oid(m))
                 @@ (<<"refs", "heads", "feature">> :> Oid(f))
    /\ worktree = <<>>
    /\ last = Called("init", <<>>, "ok", "", <<>>)

\* A rebase of a history as drawn.
RebaseShape(target, tss) ==
    /\ commits \in ReplayShapes
    /\ RebaseGraphReturned(target, rebase(CurrentRepo, target, tss))

NextReplay == \E v \in NameArgs, tss \in ReplayRuns : RebaseShape(v, tss)

SpecReplay == InitReplay /\ [][NextReplay]_vars

\* ------------------------------------------------- branches of two commits
\* rebase is applied to every store in which feature holds two commits on top
\* of a first commit and master holds one, each commit with a directory of
\* its own; HEAD is at the tip of feature, symbolic or detached, and the
\* directory on disk is that of the tip.
InitStack ==
    /\ \E d_base \in ConflictDirs, d_master \in ConflictDirs,
          d_first \in ConflictDirs, d_tip \in ConflictDirs :
          /\ commits = << ForkCommit(1, d_base, <<>>),
                          ForkCommit(2, d_master, <<Oid(1)>>),
                          ForkCommit(3, d_first, <<Oid(1)>>),
                          ForkCommit(4, d_tip, <<Oid(3)>>) >>
          /\ worktree = d_tip
    /\ \E head \in { <<"ref:", "refs", "heads", "feature">>, Oid(4) } :
          refs = (HEAD :> head)
                 @@ (<<"refs", "heads", "master">> :> Oid(2))
                 @@ (<<"refs", "heads", "feature">> :> Oid(4))
    /\ last = Called("init", <<>>, "ok", "", <<>>)

\* A rebase of a store as drawn.
RebaseStack(target, tss) ==
    /\ Len(commits) = 4
    /\ RebaseGraphReturned(target, rebase(CurrentRepo, target, tss))

NextStack ==
    \E v \in { <<"master">>, Oid(2) }, tss \in ReplayRuns : RebaseStack(v, tss)

SpecStack == InitStack /\ [][NextStack]_vars

\* ------------------------------------------------------ refs written
\* set_ref called on the ref files .bgit/HEAD, refs/heads/master and
\* refs/heads/feature (which init does not make), with hashes and with
\* symbolic values.  A write that would close a cycle of symbolic refs is
\* left out: reading such a ref does not return.

RefNames == << HEAD, <<"refs", "heads", "feature">>, <<"refs", "heads", "master">> >>
RefRank(name) == CHOOSE i \in 1..Len(RefNames) : RefNames[i] = name

\* What is written: a hash, or a symbolic value naming a branch ref.
RefValues ==
    {RefValue(Oid(i), FALSE) : i \in 1..2}
    \cup {RefValue(RefNames[i], TRUE) : i \in 2..Len(RefNames)}

\* Every symbolic ref names a ref later in RefNames.
NoRefCycle(rs) ==
    \A n \in DOMAIN rs :
        (Len(rs[n]) > 0 /\ rs[n][1] = "ref:") => RefRank(Tail(rs[n])) > RefRank(n)

SetRefReturned(name, value, deref, rs) ==
    /\ NoRefCycle(rs)
    /\ refs' = rs
    /\ last' = [op |-> "set_ref", res |-> "ok", name |-> name, value |-> value,
                deref |-> deref]
    /\ UNCHANGED <<commits, worktree>>

SetRef(name, value, deref) ==
    SetRefReturned(name, value, deref, set_ref(refs, name, value, deref))

NextRefs == \E i \in 1..Len(RefNames), v \in RefValues, d \in BOOLEAN : SetRef(RefNames[i], v, d)

SpecRefs == Init /\ [][NextRefs]_vars

\* ------------------------------------------------------ names resolved
\* get_oid_hash called on hashes, on '@' and HEAD, and on names, in
\* repositories where the name v has a ref file at any of .bgit/v,
\* .bgit/refs/v, .bgit/refs/tags/v and .bgit/refs/heads/v, holding a hash of
\* its own, a symbolic value naming master, or a symbolic value naming a
\* branch that does not exist.

NameV == <<"v">>

\* What the ref file at the i-th location of v may hold.
Held(i) == { Oid(i + 1), <<"ref:", "refs", "heads", "master">>,
             <<"ref:", "refs", "heads", "none">> }

InitNames ==
    /\ \E present \in SUBSET (1..4) :
        \E held \in [present -> UNION {Held(i) : i \in 1..4}] :
          /\ \A i \in present : held[i] \in Held(i)
          /\ refs = [n \in {HEAD, <<"refs", "heads", "master">>}
                              \cup {refs_to_try(NameV)[i] : i \in present} |->
                        IF n = HEAD THEN <<"ref:", "refs", "heads", "master">>
                        ELSE IF n = <<"refs", "heads", "master">> THEN Oid(1)
                        ELSE held[CHOOSE i \in present : refs_to_try(NameV)[i] = n]]
    /\ commits = <<>>
    /\ worktree = <<>>
    /\ last = Called("init", <<>>, "ok", "", <<>>)

Tag(name, hash) == Returned("tag", name, create_tag(CurrentRepo, name, hash))

GetOidHashReturned(value, r) ==
    /\ last' = [op |-> "get_oid_hash", res |-> OkErr(r.ok), arg |-> value, val |-> r.val]
    /\ UNCHANGED <<refs, commits, worktree>>

GetOidHash(value) == GetOidHashReturned(value, get_oid_hash(refs, value))

\* The values looked up: names with and without their directories, '@', HEAD,
\* a hash, and names no ref has.
Lookups ==
    { NameV, <<"tags", "v">>, <<"heads", "v">>, <<"refs", "tags", "v">>, <<"@">>, HEAD,
      Oid(7), <<"none">>, <<"heads", "none">> }

NextNames ==
    \/ \E value \in Lookups : GetOidHash(value)
    \/ \E h \in {Oid(6)} : Tag(NameV, h)
    \/ \E h \in {Oid(7)} : BranchAt(NameV, h)

SpecNames == InitNames /\ [][NextNames]_vars

\* ------------------------------------------------------ every command
\* The commands of main.rs together, on arguments that are ref names or the
\* OIDs of stored commits: tags are made, also under the name of a branch,
\* and reset is given names as well as OIDs.
TagArgs == { <<"feature">> }
RefNameArgs == NameArgs \cup { <<"@">> }
\* The number of commits stored in these runs.
MaxAll == MaxCommits - 1
AllTrees == { <<>>, (<<"f">> :> <<"a">>) }

\* A call that would store more than MaxAll commits is not made.
NextAll ==
    \/ \E w \in AllTrees, m \in Texts, ts \in Clock :
          Commit(w, m, ts) /\ Len(commits') <= MaxAll
    \/ \E v \in RefNameArgs \cup StoredOids : Checkout(v)
    \/ \E b \in BranchArgs : Branch(b)
    \/ \E b \in BranchArgs, h \in StoredOids : BranchAt(b, h)
    \/ \E t \in TagArgs, h \in StoredOids : Tag(t, h)
    \/ \E h \in RefNameArgs \cup StoredOids : Reset(h)
    \/ \E b \in BranchArgs : Merge(b)
    \/ \E v \in NameArgs \cup StoredOids, tss \in ClockRuns :
          Rebase(v, tss) /\ Len(commits') <= MaxAll

SpecAll == Init /\ [][NextAll]_vars

\* ------------------------------------------------------ objects as bytes
\* Here a string is the sequence of its bytes (0..255), the store holds
\* every object file as written (header and content), and a hash is the
\* name of the object file; `commits` is that store.

NUL == 0
SP == 32
\* The bytes char::is_whitespace holds of: tab, line feed, vertical tab, form
\* feed, carriage return, space.
Whitespace == {9, 10, 11, 12, 13, SP}

ObjectTypes == {"blob", "tree", "commit"}

\* "blob", "tree", "commit"
as_str(obj_type) ==
    CASE obj_type = "blob" -> <<98, 108, 111, 98>>
      [] obj_type = "tree" -> <<116, 114, 101, 101>>
      [] obj_type = "commit" -> <<99, 111, 109, 109, 105, 116>>

\* The decimal digits of a length.
RECURSIVE Decimal(_)
Decimal(n) == IF n < 10 THEN <<48 + n>> ELSE Decimal(n \div 10) \o <<48 + (n % 10)>>

\* "{type} {size}\0"
Header(obj_type, data) == as_str(obj_type) \o <<SP>> \o Decimal(Len(data)) \o <<NUL>>

\* The object file is the header followed by the data, named by its hash.
hash_object_bytes(store, data, obj_type) ==
    hash_object(store, Header(obj_type, data) \o data)

\* The words of a string, as split_whitespace yields them.
RECURSIVE split_whitespace(_)
split_whitespace(str) ==
    IF str = <<>> THEN <<>>
    ELSE IF Head(str) \in Whitespace THEN split_whitespace(Tail(str))
    ELSE With(Min({i \in 1..(Len(str) + 1) : i > Len(str) \/ str[i] \in Whitespace}),
              LAMBDA end :
            <<SubSeq(str, 1, end - 1)>> \o split_whitespace(SubSeq(str, end, Len(str))))

\* The last NUL of the object file, or 0.
header_end_last(object_data) ==
    IF NUL \notin Range(object_data) THEN 0
    ELSE CHOOSE i \in 1..Len(object_data) :
            object_data[i] = NUL /\ \A j \in (i + 1)..Len(object_data) : object_data[j] # NUL

\* position(|&b| b == 0): the first NUL of the object file, or 0.
header_end(object_data) ==
    IF NUL \notin Range(object_data) THEN 0
    ELSE Min({i \in 1..Len(object_data) : object_data[i] = NUL})

\* The content of a stored object: everything after the header, which must
\* hold a type and a size.
get_object(rs, store, hash) ==
    With(get_oid_hash(rs, hash), LAMBDA h :
        IF ~h.ok \/ ~IsStored(store, h.val) THEN ErrStr
        ELSE With(store[OidIndex(h.val)], LAMBDA object_data :
             With(header_end(object_data), LAMBDA end :
                IF end = 0 THEN ErrStr
                ELSE IF Len(split_whitespace(SubSeq(object_data, 1, end - 1))) < 2
                THEN ErrStr
                ELSE OkStr(SubSeq(object_data, end + 1, Len(object_data))))))

\* What is hashed: nothing, a NUL, a letter, text with a NUL and a blank.
ObjectContents == { <<>>, <<NUL>>, <<120>>, <<120, NUL, SP, 121>> }

InitStore ==
    /\ refs = <<>>
    /\ commits = <<>>
    /\ worktree = <<>>
    /\ last = [op |-> "init", res |-> "ok"]

HashObjectReturned(data, obj_type, r) ==
    /\ Len(r.commits) <= MaxObjects
    /\ commits' = r.commits
    /\ last' = [op |-> "hash_object", res |-> "ok", data |-> data, kind |-> obj_type,
                oid |-> r.oid, stored |-> Len(commits)]
    /\ UNCHANGED <<refs, worktree>>

HashObject(data, obj_type) ==
    HashObjectReturned(data, obj_type, hash_object_bytes(commits, data, obj_type))

GetObjectReturned(hash, r) ==
    /\ last' = [op |-> "get_object", res |-> OkErr(r.ok), hash |-> hash, data |-> r.val]
    /\ UNCHANGED <<refs, commits, worktree>>

GetObject(hash) == GetObjectReturned(hash, get_object(refs, commits, hash))

NextStore ==
    \/ \E data \in ObjectContents, t \in ObjectTypes : HashObject(data, t)
    \/ \E h \in StoredOids \cup {NoObject} : GetObject(h)

SpecStore == InitStore /\ [][NextStore]_vars

\* ------------------------------------------------------- trees as bytes
\* Here a directory is a function from the names of its entries (bytes) to
\* files and directories, `worktree` is the directory on disk, and a tree
\* object is the bytes create_tree writes.

File(content) == [kind |-> "file", content |-> content]
Dir(entries) == [kind |-> "dir", entries |-> entries]

\* "100644" and "40000"
ModeFile == <<49, 48, 48, 54, 52, 52>>
ModeDir == <<52, 48, 48, 48, 48>>

\* The bytes of a hash as a tree entry holds them: 20 in the program, one here.
HashLen == 1
hex_decode(hash) == <<OidIndex(hash) - 1>>
hex_encode(bytes) == Oid(bytes[1] + 1)

\* ".bgit", ".bgitignore", ".git", ".gitignore", "settings.json", ".DS_Store",
\* ".vscode"
paths_to_ignore ==
    { <<46, 98, 103, 105, 116>>,
      <<46, 98, 103, 105, 116, 105, 103, 110, 111, 114, 101>>,
      <<46, 103, 105, 116>>,
      <<46, 103, 105, 116, 105, 103, 110, 111, 114, 101>>,
      <<115, 101, 116, 116, 105, 110, 103, 115, 46, 106, 115, 111, 110>>,
      <<46, 68, 83, 95, 83, 116, 111, 114, 101>>,
      <<46, 118, 115, 99, 111, 100, 101>> }

\* The path as text: "." and "/<name>" for every component.
RECURSIVE PathText(_)
PathText(path) ==
    IF path = <<>> THEN <<46>>
    ELSE PathText(SubSeq(path, 1, Len(path) - 1)) \o <<47>> \o path[Len(path)]

\* str::contains
Contains(str, pattern) ==
    \E i \in 1..(Len(str) - Len(pattern) + 1) :
        SubSeq(str, i, i + Len(pattern) - 1) = pattern

\* The text of the path holds one of the fixed patterns; the directory holds
\* no .bgitignore file of further patterns.
is_ignored(path) == \E p \in paths_to_ignore : Contains(PathText(path), p)

\* Byte-wise order of two byte strings, as Vec<u8> compares.
RECURSIVE BytesLess(_, _)
BytesLess(x, y) ==
    IF y = <<>> THEN FALSE
    ELSE IF x = <<>> THEN TRUE
    ELSE IF x[1] # y[1] THEN x[1] < y[1]
    ELSE BytesLess(Tail(x), Tail(y))

RECURSIVE InsertSorted(_, _)
InsertSorted(e, sorted) ==
    IF sorted = <<>> THEN <<e>>
    ELSE IF BytesLess(e, Head(sorted)) THEN <<e>> \o sorted
    ELSE <<Head(sorted)>> \o InsertSorted(e, Tail(sorted))

\* The entries left in the order they were pushed.
unsorted(entries) == entries

\* entries.sort(): the entries in byte-wise order of their whole bytes.
RECURSIVE sort(_)
sort(entries) ==
    IF entries = <<>> THEN <<>>
    ELSE InsertSorted(entries[Len(entries)], sort(SubSeq(entries, 1, Len(entries) - 1)))

RECURSIVE Concat(_)
Concat(entries) == IF entries = <<>> THEN <<>> ELSE Head(entries) \o Concat(Tail(entries))

\* "{mode} {name}\0" followed by the bytes of the hash.
entry_data(mode, name, hash) == mode \o <<SP>> \o name \o <<NUL>> \o hex_decode(hash)

\* The entries of dir that read_dir yields, in the order it yields them.
Enumerated(dir, order) == SelectSeq(order, LAMBDA n : n \in DOMAIN dir)

\* create_tree: every entry that is not ignored gives a blob or, recursively,
\* a tree, and an entry line; the sorted lines are the tree object.
RECURSIVE create_tree_bytes(_, _, _, _)
RECURSIVE create_tree_entries(_, _, _, _, _, _)
create_tree_entries(store, dir, path, names, order, entries) ==
    IF names = <<>> THEN [commits |-> store, entries |-> entries]
    ELSE IF is_ignored(Append(path, Head(names)))
    THEN create_tree_entries(store, dir, path, Tail(names), order, entries)
    ELSE IF dir[Head(names)].kind = "file"
    THEN With(hash_object_bytes(store, dir[Head(names)].content, "blob"), LAMBDA h :
            create_tree_entries(h.commits, dir, path, Tail(names), order,
                Append(entries, entry_data(ModeFile, Head(names), h.oid))))
    ELSE With(create_tree_bytes(store, dir[Head(names)].entries,
                                Append(path, Head(names)), order), LAMBDA t :
            create_tree_entries(t.commits, dir, path, Tail(names), order,
                Append(entries, entry_data(ModeDir, Head(names), t.oid))))

create_tree_bytes(store, dir, path, order) ==
    With(create_tree_entries(store, dir, path, Enumerated(dir, order), order, <<>>),
         LAMBDA r : hash_object_bytes(r.commits, Concat(sort(r.entries)), "tree"))

\* Removes every entry that is not ignored, a directory with all it holds.
empty_current_directory(dir, path) ==
    [n \in {m \in DOMAIN dir : is_ignored(Append(path, m))} |-> dir[n]]

\* The directory with one entry written.
WithEntry(dir, name, node) == [n \in (DOMAIN dir) \cup {name} |-> IF n = name THEN node ELSE dir[n]]

\* What a directory entry holds when it is about to be read into: the
\* directory that is there, or the empty one create_dir_all makes.
SubDirOf(dir, name) == IF name \in DOMAIN dir THEN dir[name].entries ELSE <<>>

\* read_tree: the directory is emptied, then every entry of the tree object is
\* parsed (mode and name are the first two words before the NUL, the hash the
\* bytes after it) and written, unless its path is ignored.
RECURSIVE read_tree_bytes(_, _, _, _, _)
RECURSIVE read_tree_loop(_, _, _, _, _, _)

\* One parsed entry: a file is written with the content of its blob, a
\* directory is made and read into; writing a file over a directory or
\* making a directory over a file fails.
ReadEntry(rs, store, tree_data, next, path, dir, mode, name, hash) ==
    IF is_ignored(Append(path, name))
    THEN read_tree_loop(rs, store, tree_data, next, path, dir)
    ELSE IF mode = ModeFile
    THEN With(get_object(rs, store, hash), LAMBDA content :
            IF ~content.ok THEN [ok |-> FALSE, dir |-> dir]
            ELSE IF name \in DOMAIN dir /\ dir[name].kind = "dir"
            THEN [ok |-> FALSE, dir |-> dir]
            ELSE read_tree_loop(rs, store, tree_data, next, path,
                                WithEntry(dir, name, File(content.val))))
    ELSE IF mode = ModeDir
    THEN IF name \in DOMAIN dir /\ dir[name].kind = "file"
         THEN [ok |-> FALSE, dir |-> dir]
         ELSE With(read_tree_bytes(rs, store, hash, Append(path, name),
                                   SubDirOf(dir, name)), LAMBDA sub :
                IF ~sub.ok THEN [ok |-> FALSE, dir |-> WithEntry(dir, name, Dir(sub.dir))]
                ELSE read_tree_loop(rs, store, tree_data, next, path,
                                    WithEntry(dir, name, Dir(sub.dir))))
    ELSE [ok |-> FALSE, dir |-> dir]

read_tree_loop(rs, store, tree_data, pos, path, dir) ==
    IF pos > Len(tree_data) THEN [ok |-> TRUE, dir |-> dir]
    ELSE With(header_end(SubSeq(tree_data, pos, Len(tree_data))), LAMBDA null_pos :
        IF null_pos = 0 THEN [ok |-> FALSE, dir |-> dir]
        ELSE With(split_whitespace(SubSeq(tree_data, pos, pos + null_pos - 2)),
                  LAMBDA parts :
            IF Len(parts) < 2 THEN [ok |-> FALSE, dir |-> dir]
            ELSE IF pos + null_pos + HashLen - 1 > Len(tree_data)
            THEN [ok |-> FALSE, dir |-> dir]
            ELSE ReadEntry(rs, store, tree_data, pos + null_pos + HashLen, path, dir,
                     parts[1], parts[2],
                     hex_encode(SubSeq(tree_data, pos + null_pos,
                                       pos + null_pos + HashLen - 1)))))

read_tree_bytes(rs, store, tree_oid, path, dir) ==
    With(get_object(rs, store, tree_oid), LAMBDA tree_data :
        IF ~tree_data.ok THEN [ok |-> FALSE, dir |-> empty_current_directory(dir, path)]
        ELSE read_tree_loop(rs, store, tree_data.val, 1, path,
                            empty_current_directory(dir, path)))

\* The names of directory entries: "a" and "a b", and the ignored ".git".
NameA == <<97>>
NameAB == <<97, SP, 98>>
DotGit == <<46, 103, 105, 116>>
EntryNames == {NameA, NameAB}

\* The orders read_dir may yield the entries of a directory in.
Enumerations == { <<NameA, NameAB, DotGit>>, <<DotGit, NameAB, NameA>> }

\* What a subdirectory holds: nothing, a file "a", an empty directory "a".
SubDirs == { <<>>, NameA :> File(<<121>>), NameA :> Dir(<<>>) }
\* What an entry of the top directory is: a file, or one of the subdirectories.
Nodes == {File(<<120>>)} \cup {Dir(d) : d \in SubDirs}
\* The directories trees are made of: no, one or both names, each with a node.
Dirs == UNION {[S -> Nodes] : S \in SUBSET EntryNames}
\* Directories holding ignored paths: at the top, beside a file, inside an
\* ignored directory, inside a directory that is not ignored.
IgnoredDirs ==
    { DotGit :> File(<<122>>),
      (DotGit :> File(<<122>>)) @@ (NameA :> File(<<120>>)),
      DotGit :> Dir(NameA :> File(<<122>>)),
      NameA :> Dir(DotGit :> File(<<122>>)) }

InitTree ==
    /\ refs = <<>>
    /\ commits = <<>>
    /\ worktree \in Dirs
    /\ last = [op |-> "init", res |-> "ok"]

\* The user replaces what the directory holds.
Edit(dir) ==
    /\ worktree' = dir
    /\ last' = [op |-> "edit", res |-> "ok"]
    /\ UNCHANGED <<refs, commits>>

WriteTreeReturned(order, r) ==
    /\ Len(r.commits) <= MaxStored
    /\ commits' = r.commits
    /\ last' = [op |-> "create_tree", res |-> "ok", oid |-> r.oid, order |-> order,
                stored |-> Len(commits)]
    /\ UNCHANGED <<refs, worktree>>

WriteTree(order) == WriteTreeReturned(order, create_tree_bytes(commits, worktree, <<>>, order))

ReadTreeReturned(tree_oid, r) ==
    /\ worktree' = r.dir
    /\ last' = [op |-> "read_tree", res |-> OkErr(r.ok), oid |-> tree_oid]
    /\ UNCHANGED <<refs, commits>>

ReadTree(tree_oid) ==
    ReadTreeReturned(tree_oid, read_tree_bytes(refs, commits, tree_oid, <<>>, worktree))

NextTree ==
    \/ \E dir \in Dirs \cup IgnoredDirs : Edit(dir)
    \/ \E order \in Enumerations : WriteTree(order)
    \/ \E t \in StoredOids \cup {NoObject} : ReadTree(t)

SpecTree == InitTree /\ [][NextTree]_vars

\* ------------------------------------------------------- trees compared
\* Here the store holds the trees of drawn directories (as bytes), a path is
\* the bytes of its text, and `last` holds what the differ returned.

Blob == "blob"
Tree == "tree"

\* get_tree_data: the rows (mode, name, hash, type) of a tree object, or an
\* error when a row cannot be parsed.
RECURSIVE get_tree_data_loop(_, _, _)
get_tree_data_loop(tree_data, pos, entries) ==
    IF pos > Len(tree_data) THEN OkStr(entries)
    ELSE With(header_end(SubSeq(tree_data, pos, Len(tree_data))), LAMBDA null_pos :
        IF null_pos = 0 THEN ErrStr
        ELSE With(split_whitespace(SubSeq(tree_data, pos, pos + null_pos - 2)),
                  LAMBDA parts :
            IF Len(parts) < 2 THEN ErrStr
            ELSE IF pos + null_pos + HashLen - 1 > Len(tree_data) THEN ErrStr
            ELSE IF parts[1] \notin {ModeFile, ModeDir} THEN ErrStr
            ELSE get_tree_data_loop(tree_data, pos + null_pos + HashLen,
                    Append(entries,
                        [mode |-> parts[1], name |-> parts[2],
                         oid |-> hex_encode(SubSeq(tree_data, pos + null_pos,
                                                   pos + null_pos + HashLen - 1)),
                         type |-> IF parts[1] = ModeFile THEN Blob ELSE Tree]))))

get_tree_data_bytes(rs, store, tree_oid) ==
    With(get_oid_hash(rs, tree_oid), LAMBDA h :
        IF ~h.ok THEN ErrStr
        ELSE With(get_object(rs, store, h.val), LAMBDA tree_data :
            IF ~tree_data.ok THEN ErrStr
            ELSE get_tree_data_loop(tree_data.val, 1, <<>>)))

\* "{prefix}/{name}", or the name when the prefix is empty.
JoinPath(prefix, name) == IF prefix = <<>> THEN name ELSE prefix \o <<47>> \o name

\* The state of compare_trees' walk: the rows by path, the tree OIDs seen
\* for each input, the queue of (tree_index, tree_oid, prefix).
Walk(queue, visited, entries) == [queue |-> queue, visited |-> visited, entries |-> entries]

\* The rows with one entry recorded for one input: a new row has the type of
\* the entry and no OID, a tree entry turns the row into a tree row, and the
\* OID goes to the slot of the input.
Recorded(entries, num_trees, path, tree_index, e) ==
    With(IF path \in DOMAIN entries THEN entries[path]
         ELSE [type |-> e.type, oids |-> [i \in 1..num_trees |-> None]], LAMBDA row :
        [p \in (DOMAIN entries) \cup {path} |->
            IF p # path THEN entries[p]
            ELSE [type |-> IF e.type = Tree THEN Tree ELSE row.type,
                  oids |-> [row.oids EXCEPT ![tree_index] = Some(e.oid)]]])

\* A subtree is queued when its OID was not yet seen for the input.
Enqueued(w, tree_index, path, e) ==
    IF e.type = Tree /\ e.oid \notin w.visited[tree_index]
    THEN Walk(Append(w.queue, [tree_index |-> tree_index, oid |-> e.oid, prefix |-> path]),
              [w.visited EXCEPT ![tree_index] = @ \cup {e.oid}], w.entries)
    ELSE w

\* The entries of one tree, in turn.
RECURSIVE compare_trees_entries(_, _, _, _)
compare_trees_entries(w, num_trees, item, tree_data) ==
    IF tree_data = <<>> THEN w
    ELSE With(JoinPath(item.prefix, Head(tree_data).name), LAMBDA path :
            compare_trees_entries(
                Enqueued(Walk(w.queue, w.visited,
                              Recorded(w.entries, num_trees, path, item.tree_index,
                                       Head(tree_data))),
                         item.tree_index, path, Head(tree_data)),
                num_trees, item, Tail(tree_data)))

\* The queue is taken from the front; a tree that cannot be read is skipped.
RECURSIVE compare_trees_loop(_, _, _, _)
compare_trees_loop(rs, store, num_trees, w) ==
    IF w.queue = <<>> THEN w.entries
    ELSE With(get_tree_data_bytes(rs, store, Head(w.queue).oid), LAMBDA tree_data :
            IF ~tree_data.ok
            THEN compare_trees_loop(rs, store, num_trees,
                                    Walk(Tail(w.queue), w.visited, w.entries))
            ELSE compare_trees_loop(rs, store, num_trees,
                    compare_trees_entries(Walk(Tail(w.queue), w.visited, w.entries),
                                          num_trees, Head(w.queue), tree_data.val)))

\* The roots that are not the empty string, queued in the order given.
RootsQueued(trees) ==
    [i \in 1..Len(SelectSeq([k \in 1..Len(trees) |-> k], LAMBDA k : trees[k] # <<>>)) |->
        With(SelectSeq([k \in 1..Len(trees) |-> k], LAMBDA k : trees[k] # <<>>)[i],
             LAMBDA k : [tree_index |-> k, oid |-> trees[k], prefix |-> <<>>])]

\* compare_trees: path -> (type, the OID of each input or None); the program
\* returns the rows in the order of their paths.
compare_trees(rs, store, trees) ==
    compare_trees_loop(rs, store, Len(trees),
        Walk(RootsQueued(trees),
             [i \in 1..Len(trees) |-> IF trees[i] = <<>> THEN {} ELSE {trees[i]}],
             <<>>))

\* The paths in the order of their bytes, as result.sort_by leaves the rows.
RECURSIVE SortedPaths(_)
SortedPaths(paths) ==
    IF paths = {} THEN <<>>
    ELSE With(CHOOSE p \in paths : \A q \in paths \ {p} : BytesLess(p, q), LAMBDA p :
            <<p>> \o SortedPaths(paths \ {p}))

\* What `diff --unified` prints for two files: nothing when they hold the
\* same bytes, else the labels and the change.
DiffOutput(from, to, path) ==
    IF from = to THEN <<>> ELSE <<[path |-> path, from |-> from, to |-> to]>>

\* The content a temporary file is given: that of the object, or nothing.
FileOf(rs, store, o) == IF o.some THEN get_object(rs, store, o.v) ELSE OkStr(<<>>)

diff_blobs(rs, store, from_oid, to_oid, path) ==
    With(FileOf(rs, store, from_oid), LAMBDA from :
    With(FileOf(rs, store, to_oid), LAMBDA to :
        IF ~from.ok \/ ~to.ok THEN ErrStr
        ELSE OkStr(DiffOutput(from.val, to.val, path))))

\* The rows of type blob whose two OIDs differ are diffed, in path order.
RECURSIVE diff_trees_rows(_, _, _, _, _)
diff_trees_rows(rs, store, entries, paths, output) ==
    IF paths = <<>> THEN OkStr(output)
    ELSE IF entries[Head(paths)].type = Blob
            /\ entries[Head(paths)].oids[1] # entries[Head(paths)].oids[2]
    THEN With(diff_blobs(rs, store, entries[Head(paths)].oids[1],
                         entries[Head(paths)].oids[2], Head(paths)), LAMBDA diff :
            IF ~diff.ok THEN ErrStr
            ELSE diff_trees_rows(rs, store, entries, Tail(paths), output \o diff.val))
    ELSE diff_trees_rows(rs, store, entries, Tail(paths), output)

diff_trees(rs, store, old_tree, new_tree) ==
    With(compare_trees(rs, store, <<old_tree, new_tree>>), LAMBDA entries :
        diff_trees_rows(rs, store, entries, SortedPaths(DOMAIN entries), <<>>))

\* The names of directory entries here: "a" and "b".
NameB == <<98>>
\* What an entry is: an empty file, a file, an empty directory, a directory
\* holding a file "a".
DiffNodes == { File(<<>>), File(<<120>>), Dir(<<>>), Dir(NameA :> File(<<120>>)) }
DiffDirs == UNION {[S -> DiffNodes] : S \in SUBSET {NameA, NameB}}
\* The directories that hold at most "a".
SmallDirs == {d \in DiffDirs : NameB \notin DOMAIN d}

\* The store after the trees of the given directories were written in turn.
RECURSIVE StoreOf(_)
StoreOf(dirs) ==
    IF dirs = <<>> THEN <<>>
    ELSE create_tree_bytes(StoreOf(SubSeq(dirs, 1, Len(dirs) - 1)), dirs[Len(dirs)],
                           <<>>, <<NameA, NameB>>).commits

\* The stored trees, and the empty string that stands for no tree.
TreeArgs ==
    {o \in StoredOids : SubSeq(commits[OidIndex(o)], 1, 4) = as_str(Tree)} \cup {<<>>}

InitDiff ==
    /\ refs = <<>>
    /\ \E d1 \in DiffDirs : \E d2 \in SmallDirs :
            /\ commits = StoreOf(<<d1, d2>>)
            /\ worktree = d2
    /\ last = [op |-> "init", res |-> "ok"]

CompareTrees(trees) ==
    /\ last' = [op |-> "compare_trees", res |-> "ok", trees |-> trees,
                rows |-> compare_trees(refs, commits, trees)]
    /\ UNCHANGED <<refs, commits, worktree>>

DiffTreesReturned(old_tree, new_tree, r) ==
    /\ last' = [op |-> "diff_trees", res |-> OkErr(r.ok), old |-> old_tree,
                new |-> new_tree, out |-> r.val]
    /\ UNCHANGED <<refs, commits, worktree>>

DiffTrees(old_tree, new_tree) ==
    DiffTreesReturned(old_tree, new_tree, diff_trees(refs, commits, old_tree, new_tree))

NextDiff ==
    \/ \E t1 \in TreeArgs : \E t2 \in TreeArgs : CompareTrees(<<t1, t2>>)
    \/ \E t1 \in TreeArgs : \E t2 \in TreeArgs : DiffTrees(t1, t2)

SpecDiff == InitDiff /\ [][NextDiff]_vars

\* ------------------------------------------------------- trees merged
\* Here the store holds the trees of a fixed list of directories, `worktree`
\* holds the three objects the differ is given (base, head, other), and
\* `last` holds what it returned.

\* A conflict marker of diff3 -m: seven times the character and a line feed.
Marker(c) == <<c, c, c, c, c, c, c, 10>>

\* What `diff3 -m mine older yours` prints, for files of one line or none:
\* the side that changed when only one did, else both sides between markers.
Diff3Bytes(mine, older, yours) ==
    IF mine = yours THEN mine
    ELSE IF older = mine THEN yours
    ELSE IF older = yours THEN mine
    ELSE Marker(60) \o mine \o Marker(124) \o older \o Marker(61) \o yours \o Marker(62)

\* When base and head are equal the content of head is returned, not that of
\* other.
merge_blobs_keeping_head(rs, store, o_base, o_head, o_other) ==
    IF o_base = o_head /\ o_head = o_other THEN FileOf(rs, store, o_base)
    ELSE IF o_head = o_other THEN FileOf(rs, store, o_head)
    ELSE IF o_base = o_head THEN FileOf(rs, store, o_head)
    ELSE IF o_base = o_other THEN FileOf(rs, store, o_head)
    ELSE With(FileOf(rs, store, o_base), LAMBDA base_content :
         With(FileOf(rs, store, o_head), LAMBDA head_content :
         With(FileOf(rs, store, o_other), LAMBDA other_content :
            IF ~base_content.ok \/ ~head_content.ok \/ ~other_content.ok THEN ErrStr
            ELSE OkStr(Diff3Bytes(head_content.val, base_content.val,
                                  other_content.val)))))

\* merge_blobs_three_way on OIDs that may be None: equal OIDs give the content
\* of the object (nothing for None) without a merge, else diff3 merges the
\* three contents.
merge_blobs_three_way_bytes(rs, store, o_base, o_head, o_other) ==
    IF o_base = o_head /\ o_head = o_other THEN FileOf(rs, store, o_base)
    ELSE IF o_head = o_other THEN FileOf(rs, store, o_head)
    ELSE IF o_base = o_head THEN FileOf(rs, store, o_other)
    ELSE IF o_base = o_other THEN FileOf(rs, store, o_head)
    ELSE With(FileOf(rs, store, o_base), LAMBDA base_content :
         With(FileOf(rs, store, o_head), LAMBDA head_content :
         With(FileOf(rs, store, o_other), LAMBDA other_content :
            IF ~base_content.ok \/ ~head_content.ok \/ ~other_content.ok THEN ErrStr
            ELSE OkStr(Diff3Bytes(head_content.val, base_content.val,
                                  other_content.val)))))

\* The merge of the blobs of one row.
MergedRow(rs, store, row) ==
    merge_blobs_three_way_bytes(rs, store, row.oids[1], row.oids[2], row.oids[3])

\* A row gives a key when head or other holds the path: a blob row the merged
\* content, a tree row the mark of a directory.
Kept(row) == row.oids[2].some \/ row.oids[3].some

\* merge_trees: path -> merged file or directory mark, over the rows of
\* compare_trees(base, head, other); the merge of any blob row may fail.
merge_trees_bytes(rs, store, t_head, t_other, t_base) ==
    With(compare_trees(rs, store, <<t_base, t_head, t_other>>), LAMBDA entries :
        IF \E p \in DOMAIN entries :
                entries[p].type = Blob /\ ~MergedRow(rs, store, entries[p]).ok
        THEN ErrStr
        ELSE OkStr([p \in {q \in DOMAIN entries : Kept(entries[q])} |->
                        IF entries[p].type = Blob
                        THEN File(MergedRow(rs, store, entries[p]).val)
                        ELSE Dir(<<>>)]))

\* The directories whose trees are stored: empty; a file "a" of one line, of
\* another line, of no line; files "a" and "b"; directories "a" and "b" of the
\* same content.
LineX == <<120, 10>>
LineY == <<121, 10>>
MergeDirs ==
    << <<>>,
       NameA :> File(LineX),
       NameA :> File(LineY),
       NameA :> File(<<>>),
       (NameA :> File(LineX)) @@ (NameB :> File(LineY)),
       (NameA :> Dir(NameA :> File(LineX))) @@ (NameB :> Dir(NameA :> File(LineX))) >>

\* The stored blobs, as OIDs that may be None.
BlobArgs ==
    {Some(o) : o \in {b \in StoredOids : SubSeq(commits[OidIndex(b)], 1, 4) = as_str(Blob)}}
    \cup {None}

The(kind, base, head, other) == [kind |-> kind, base |-> base, head |-> head, other |-> other]

InitMerge ==
    /\ refs = <<>>
    /\ commits = StoreOf(MergeDirs)
    /\ \/ \E b \in TreeArgs : \E h \in TreeArgs : \E o \in TreeArgs :
            worktree = The(Tree, b, h, o)
       \/ \E b \in BlobArgs : \E h \in BlobArgs : \E o \in BlobArgs :
            worktree = The(Blob, b, h, o)
    /\ last = [op |-> "init", res |-> "ok"]

MergeTreesReturned(r) ==
    /\ last' = [op |-> "merge_trees", res |-> OkErr(r.ok), tree |-> r.val]
    /\ UNCHANGED <<refs, commits, worktree>>

MergeTrees ==
    /\ worktree.kind = Tree
    /\ MergeTreesReturned(merge_trees_bytes(refs, commits, worktree.head, worktree.other,
                                            worktree.base))

MergeBlobsReturned(r) ==
    /\ last' = [op |-> "merge_blobs_three_way", res |-> OkErr(r.ok), content |-> r.val]
    /\ UNCHANGED <<refs, commits, worktree>>

MergeBlobs ==
    /\ worktree.kind = Blob
    /\ MergeBlobsReturned(merge_blobs_three_way_bytes(refs, commits, worktree.base,
                                                      worktree.head, worktree.other))

\* The names a path is made of, split at "/".
RECURSIVE SplitPath(_)
SplitPath(path) ==
    IF 47 \notin Range(path) THEN <<path>>
    ELSE With(Min({i \in 1..Len(path) : path[i] = 47}), LAMBDA slash :
            <<SubSeq(path, 1, slash - 1)>> \o SplitPath(SubSeq(path, slash + 1, Len(path))))

WriteOut(ok, dir) == [ok |-> ok, dir |-> dir]

\* A name of the directory with what the write below it left there.
Below(dir, name, sub) ==
    IF sub.ok THEN WriteOut(TRUE, WithEntry(dir, name, Dir(sub.dir))) ELSE WriteOut(FALSE, dir)

\* A file written at a path: the directories above it are made when they are
\* not there, and the write fails where one of them is a file or where the
\* path is a directory.
RECURSIVE WriteFile(_, _, _)
WriteFile(dir, names, content) ==
    IF Len(names) = 1
    THEN IF names[1] \in DOMAIN dir /\ dir[names[1]].kind = "dir"
         THEN WriteOut(FALSE, dir)
         ELSE WriteOut(TRUE, WithEntry(dir, names[1], File(content)))
    ELSE IF names[1] \in DOMAIN dir /\ dir[names[1]].kind = "file"
    THEN WriteOut(FALSE, dir)
    ELSE Below(dir, names[1], WriteFile(SubDirOf(dir, names[1]), Tail(names), content))

\* A directory made at a path, unless it is there; it fails where the path
\* or a directory above it is a file.
RECURSIVE MakeDir(_, _)
MakeDir(dir, names) ==
    IF names[1] \in DOMAIN dir /\ dir[names[1]].kind = "file"
    THEN WriteOut(FALSE, dir)
    ELSE IF Len(names) = 1
    THEN WriteOut(TRUE, WithEntry(dir, names[1], Dir(SubDirOf(dir, names[1]))))
    ELSE Below(dir, names[1], MakeDir(SubDirOf(dir, names[1]), Tail(names)))

\* The keys of the merged tree written in the order of their paths.
RECURSIVE write_merged(_, _, _)
write_merged(merged_tree, paths, dir) ==
    IF paths = <<>> THEN WriteOut(TRUE, dir)
    ELSE With(IF merged_tree[Head(paths)].kind = "file"
              THEN WriteFile(dir, SplitPath(Head(paths)), merged_tree[Head(paths)].content)
              ELSE MakeDir(dir, SplitPath(Head(paths))), LAMBDA w :
            IF ~w.ok THEN w ELSE write_merged(merged_tree, Tail(paths), w.dir))

\* read_tree_merged: the directory is emptied, the trees are merged, and
\* every key is written.
read_tree_merged_bytes(rs, store, head_tree_oid, other_tree_oid, base_tree_oid, dir) ==
    With(merge_trees_bytes(rs, store, head_tree_oid, other_tree_oid, base_tree_oid),
         LAMBDA merged_tree_result :
        IF ~merged_tree_result.ok THEN WriteOut(FALSE, empty_current_directory(dir, <<>>))
        ELSE write_merged(merged_tree_result.val,
                          SortedPaths(DOMAIN merged_tree_result.val),
                          empty_current_directory(dir, <<>>)))

ReadTreeMergedReturned(r) ==
    /\ last' = [op |-> "read_tree_merged", res |-> OkErr(r.ok), dir |-> r.dir]
    /\ UNCHANGED <<refs, commits, worktree>>

\* The trees are merged into a directory that holds one file.
ReadTreeMerged ==
    /\ worktree.kind = Tree
    /\ ReadTreeMergedReturned(
           read_tree_merged_bytes(refs, commits, worktree.head, worktree.other,
                                  worktree.base, NameB :> File(LineY)))

NextMerge == MergeTrees \/ MergeBlobs \/ ReadTreeMerged

SpecMerge == InitMerge /\ [][NextMerge]_vars

\* ------------------------------------------------ vocabulary of properties

Sym(b) == <<"ref:", "refs", "heads">> \o b
Br(b) == <<"refs", "heads">> \o b

\* The branch refs of a ref store.
BranchRefs(rs) == {n \in DOMAIN rs : Len(n) >= 2 /\ n[1] = "refs" /\ n[2] = "heads"}

\* What HEAD holds, through one symbolic link if it is one.
Deref(rs) ==
    IF Len(rs[HEAD]) > 0 /\ rs[HEAD][1] = "ref:" THEN rs[Tail(rs[HEAD])] ELSE rs[HEAD]

\* The stored commit a hash names.
CommitAt(cs, oid) == cs[OidIndex(oid)]

\* The directory a tree object describes: every entry under its full name.
TreeFiles(tree) ==
    [n \in {tree[i].name : i \in 1..Len(tree)} |->
        tree[CHOOSE i \in 1..Len(tree) : tree[i].name = n].blob]

\* The commits reachable from a set of commits through parent links.
RECURSIVE Closure(_, _)
Closure(cs, S) ==
    IF \A o \in S : Range(CommitAt(cs, o).parents) \subseteq S THEN S
    ELSE Closure(cs, S \cup UNION {Range(CommitAt(cs, o).parents) : o \in S})

\* o and its ancestors.
Reach(cs, o) == Closure(cs, {o})

\* A sequence without the elements of seen and without repetitions.
RECURSIVE Fresh(_, _)
Fresh(s, seen) ==
    IF s = <<>> THEN <<>>
    ELSE IF Head(s) \in seen THEN Fresh(Tail(s), seen)
    ELSE <<Head(s)>> \o Fresh(Tail(s), seen \cup {Head(s)})

\* The parents of the commits of a level, in order.
RECURSIVE ParentsOfLevel(_, _)
ParentsOfLevel(cs, level) ==
    IF level = <<>> THEN <<>>
    ELSE CommitAt(cs, Head(level)).parents \o ParentsOfLevel(cs, Tail(level))

\* Breadth-first order by levels: order holds the levels so far, the last of
\* them being level.
RECURSIVE BfsLevels(_, _, _)
BfsLevels(cs, level, order) ==
    IF level = <<>> THEN order
    ELSE BfsLevels(cs, Fresh(ParentsOfLevel(cs, level), Range(order)),
                   order \o Fresh(ParentsOfLevel(cs, level), Range(order)))

BfsOrder(cs, a) == BfsLevels(cs, <<a>>, <<a>>)

\* A commit and, parent after parent, the first parents behind it.
RECURSIVE Lineage(_, _)
Lineage(cs, c) ==
    IF CommitAt(cs, c).parents = <<>> THEN <<c>>
    ELSE <<c>> \o Lineage(cs, CommitAt(cs, c).parents[1])

\* Every commit reachable from c has at most one parent.
IsLinear(cs, c) == \A o \in Reach(cs, c) : Len(CommitAt(cs, o).parents) <= 1

\* A sequence lists no element twice.
NoRepeats(s) == \A i \in 1..Len(s), j \in 1..Len(s) : s[i] = s[j] => i = j

\* The content of a ref file is symbolic.
IsSymbolicRef(rs, n) == Len(rs[n]) > 0 /\ rs[n][1] = "ref:"

\* The ref location a chain of symbolic refs ends at: <<>> when a link of the
\* chain names no ref file.
RECURSIVE EndOfChain(_, _)
EndOfChain(rs, n) ==
    IF n \notin DOMAIN rs THEN <<>>
    ELSE IF IsSymbolicRef(rs, n) THEN EndOfChain(rs, Tail(rs[n]))
    ELSE n

\* The text set_ref writes for a value.
Written(value) == IF value.is_symbolic THEN <<"ref:">> \o value.value ELSE value.value

\* rs2 is rs with the text written at location n, and nothing else changed.
WrittenAt(rs, rs2, n, text) ==
    /\ DOMAIN rs2 = (DOMAIN rs) \cup {n}
    /\ rs2[n] = text
    /\ \A m \in (DOMAIN rs) \ {n} : rs2[m] = rs[m]

\* The four names a value is tried under.
Candidates(w) == << w, <<"refs">> \o w, <<"refs", "tags">> \o w, <<"refs", "heads">> \o w >>

\* The first element of a sequence that is in a set (<<>> when none is).
RECURSIVE FirstIn(_, _)
FirstIn(s, S) ==
    IF s = <<>> THEN <<>>
    ELSE IF Head(s) \in S THEN Head(s) ELSE FirstIn(Tail(s), S)

CommitDone == last'.op = "commit" /\ last'.res = "ok"
CheckoutDone == last'.op = "checkout" /\ last'.res = "ok"
MergeDone == last'.op = "merge" /\ last'.res = "ok"
FastForwardDone == MergeDone /\ last'.info = "ff"
RebaseDone == last'.op = "rebase" /\ last'.res = "ok"
ResetDone == last'.op = "reset" /\ last'.res = "ok"

\* The tag refs of a ref store.
TagRefs(rs) == {n \in DOMAIN rs : Len(n) >= 2 /\ n[1] = "refs" /\ n[2] = "tags"}

\* The commit an argument of rebase names: a hash, HEAD or a branch.
Named(rs, arg) ==
    IF is_hash(arg) THEN arg ELSE IF arg = HEAD THEN Deref(rs) ELSE rs[Br(arg)]

\* The first commit, breadth-first from a, among b and its ancestors.
BaseOf(cs, a, b) == FirstIn(BfsOrder(cs, a), Reach(cs, b))

\* The ancestors of h (h too) that are not ancestors of the base of h and t.
Replayed(cs, h, t) == Reach(cs, h) \ Reach(cs, BaseOf(cs, h, t))

\* k steps back from tip, each through an only parent, end at t.
RECURSIVE ChainEndsAt(_, _, _, _)
ChainEndsAt(cs, tip, k, t) ==
    IF k = 0 THEN tip = t
    ELSE /\ Len(CommitAt(cs, tip).parents) = 1
         /\ ChainEndsAt(cs, CommitAt(cs, tip).parents[1], k - 1, t)

\* The k commits of such a chain, the oldest first.
RECURSIVE ChainOf(_, _, _)
ChainOf(cs, tip, k) ==
    IF k = 0 THEN <<>>
    ELSE Append(ChainOf(cs, CommitAt(cs, tip).parents[1], k - 1), tip)

\* The message of a stored commit, as get_commit gives it.
MessageOf(cs, c) == TrimEnd(CommitAt(cs, c).message)

\* The commits of S under message m, and the commits of a list under it.
CountIn(cs, S, m) == Cardinality({c \in S : MessageOf(cs, c) = m})
CountAlong(cs, chain, m) ==
    Cardinality({i \in 1..Len(chain) : MessageOf(cs, chain[i]) = m})

\* The store cs2 a rebase of head h onto t left, tip being the new HEAD
\* commit: one commit per replayed commit, in a single-parent chain from t
\* to tip, under the messages of the replayed commits (in their order, when
\* these are themselves a chain down to the base), the commits of cs kept.
ReplayedAsChain(cs, cs2, h, t, tip, S) ==
    /\ Len(cs2) >= Len(cs)
    /\ SubSeq(cs2, 1, Len(cs)) = cs
    /\ ChainEndsAt(cs2, tip, Cardinality(S), t)
    /\ \A c \in S : CountAlong(cs2, ChainOf(cs2, tip, Cardinality(S)),
                                 MessageOf(cs, c))
                          = CountIn(cs, S, MessageOf(cs, c))
    /\ ChainEndsAt(cs, h, Cardinality(S), BaseOf(cs, h, t)) =>
          \A i \in 1..Cardinality(S) :
              MessageOf(cs2, ChainOf(cs2, tip, Cardinality(S))[i])
                  = MessageOf(cs, ChainOf(cs, h, Cardinality(S))[i])

\* Every commit of the chain is an object the store did not hold.
ChainIsNew(cs, cs2, tip, S) ==
    /\ Len(cs2) = Len(cs) + Cardinality(S)
    /\ \A c \in Range(ChainOf(cs2, tip, Cardinality(S))) : OidIndex(c) > Len(cs)

\* The content of a stored object: the bytes after the header.
ContentOf(store, hash) ==
    SubSeq(store[OidIndex(hash)], header_end(store[OidIndex(hash)]) + 1,
           Len(store[OidIndex(hash)]))

IsTreeObject(object_data) ==
    Len(object_data) >= 4 /\ SubSeq(object_data, 1, 4) = as_str("tree")

\* The entries a tree object lists: the mode is the bytes before the first
\* blank, the name the bytes between that blank and the NUL, the hash the
\* bytes after the NUL.
RECURSIVE EntriesOf(_)
EntriesOf(tree_data) ==
    IF tree_data = <<>> THEN <<>>
    ELSE <<[mode |-> SubSeq(tree_data, 1,
                        Min({i \in 1..Len(tree_data) : tree_data[i] = SP}) - 1),
            name |-> SubSeq(tree_data,
                        Min({i \in 1..Len(tree_data) : tree_data[i] = SP}) + 1,
                        header_end(tree_data) - 1),
            hash |-> hex_encode(SubSeq(tree_data, header_end(tree_data) + 1,
                                       header_end(tree_data) + HashLen))]>>
         \o EntriesOf(SubSeq(tree_data, header_end(tree_data) + HashLen + 1,
                             Len(tree_data)))

EntryNamed(entries, name) == CHOOSE i \in 1..Len(entries) : entries[i].name = name

\* The directory a stored tree describes.
RECURSIVE DirOf(_, _)
DirOf(store, tree) ==
    [n \in {EntriesOf(ContentOf(store, tree))[i].name :
                i \in 1..Len(EntriesOf(ContentOf(store, tree)))} |->
        IF EntriesOf(ContentOf(store, tree))[
               EntryNamed(EntriesOf(ContentOf(store, tree)), n)].mode = ModeFile
        THEN File(ContentOf(store, EntriesOf(ContentOf(store, tree))[
                      EntryNamed(EntriesOf(ContentOf(store, tree)), n)].hash))
        ELSE Dir(DirOf(store, EntriesOf(ContentOf(store, tree))[
                      EntryNamed(EntriesOf(ContentOf(store, tree)), n)].hash))]

\* Every path of a directory with what is there: a file and its content, or
\* a directory.
RECURSIVE Listing(_, _)
Listing(dir, path) ==
    UNION { {[path |-> Append(path, n), kind |-> dir[n].kind,
              content |-> IF dir[n].kind = "file" THEN dir[n].content ELSE <<>>]}
            \cup (IF dir[n].kind = "dir" THEN Listing(dir[n].entries, Append(path, n))
                  ELSE {})
          : n \in DOMAIN dir }

PathsOf(dir) == {e.path : e \in Listing(dir, <<>>)}

\* The names of the entries of a tree object are in ascending byte-wise order.
NamesAscending(entries) ==
    \A j \in 1..(Len(entries) - 1) : BytesLess(entries[j].name, entries[j + 1].name)

\* The differ's operations, as they returned.
Compared == last.op = "compare_trees"
Diffed == last.op = "diff_trees" /\ last.res = "ok"

\* A plain recursive walk of a stored tree: every path below it with the OID
\* the tree holds there.
RECURSIVE WalkOf(_, _, _)
WalkOf(store, tree, prefix) ==
    IF tree = <<>> THEN {}
    ELSE UNION { {[path |-> JoinPath(prefix, EntriesOf(ContentOf(store, tree))[i].name),
                   mode |-> EntriesOf(ContentOf(store, tree))[i].mode,
                   oid |-> EntriesOf(ContentOf(store, tree))[i].hash]}
                 \cup (IF EntriesOf(ContentOf(store, tree))[i].mode = ModeDir
                       THEN WalkOf(store, EntriesOf(ContentOf(store, tree))[i].hash,
                                   JoinPath(prefix,
                                            EntriesOf(ContentOf(store, tree))[i].name))
                       ELSE {})
               : i \in 1..Len(EntriesOf(ContentOf(store, tree))) }

\* The OID a walk holds at a path, or None.
WalkedAt(walk, path) ==
    IF \E e \in walk : e.path = path
    THEN Some((CHOOSE e \in walk : e.path = path).oid)
    ELSE None

\* The paths of a stored tree, and those of them that are files.
TreePaths(store, tree) == {e.path : e \in WalkOf(store, tree, <<>>)}
FilePaths(store, tree) == {e.path : e \in {f \in WalkOf(store, tree, <<>>) : f.mode = ModeFile}}

MergedTrees == last.op = "merge_trees" /\ last.res = "ok"
MergedBlobs == last.op = "merge_blobs_three_way"

\* A subtree OID that a stored tree holds at two paths.
SharedSubtree(store, tree) ==
    \E e1 \in WalkOf(store, tree, <<>>) : \E e2 \in WalkOf(store, tree, <<>>) :
        /\ e1.path # e2.path /\ e1.oid = e2.oid
        /\ SubSeq(store[OidIndex(e1.oid)], 1, 4) = as_str(Tree)
        /\ ContentOf(store, e1.oid) # <<>>

\* What a commit holds under the name "f", or None.
HeldAt(cs, oid) == OidAt(CommitAt(cs, oid).tree, <<"f">>)

\* HEAD's commit and the commit of a branch both hold the file "f", with
\* contents that differ from each other and from what the first commit, their
\* merge base, holds there.
Conflicting(name) ==
    With(HeldAt(commits, get_ref(refs, HEAD, TRUE).value), LAMBDA mine :
    With(HeldAt(commits, get_ref(refs, <<"refs", "heads">> \o name, TRUE).value),
         LAMBDA yours :
        /\ mine.some /\ yours.some
        /\ mine # yours
        /\ HeldAt(commits, Oid(1)) \notin {mine, yours}))

\* The content shows both versions between conflict markers.
ConflictMarked(content, mine, yours) ==
    /\ Contains(content, <<"<<<<<<<">> \o mine)
    /\ Contains(content, <<"=======">> \o yours \o <<">>>>>>>">>)

\* HEAD resolves to a commit: it holds a hash, or names a ref that holds one.
HeadHasCommit(rs) ==
    IF Len(rs[HEAD]) > 0 /\ rs[HEAD][1] = "ref:"
    THEN Tail(rs[HEAD]) \in DOMAIN rs /\ is_hash(rs[Tail(rs[HEAD])])
    ELSE is_hash(rs[HEAD])

\* The paths of a stored tree that are directories.
DirPaths(store, tree) == TreePaths(store, tree) \ FilePaths(store, tree)

\* A path is a file in one of the two trees and a directory in the other.
TypeClash(store, t1, t2) ==
    \/ FilePaths(store, t1) \cap DirPaths(store, t2) # {}
    \/ DirPaths(store, t1) \cap FilePaths(store, t2) # {}

ReadMerged == last.op = "read_tree_merged"

\* The commit of the history drawn that a commit made by rebase replays: the
\* one under the same first line of message.
Original(cs, made) ==
    CHOOSE i \in 1..Len(cs) : cs[i].message[1] = made.message[1]

\* ------------------------------------------------------------ properties

\* C1: a commit with a non-empty message made while HEAD is symbolic to
\* refs/heads/B leaves refs/heads/B holding the new commit's hash and HEAD
\* still symbolic to refs/heads/B; made while HEAD holds a hash, it leaves
\* HEAD holding the new commit's hash and every branch ref as it was.
C1_CommitAdvancesBranchOrHead ==
    [][CommitDone =>
        /\ IsStored(commits', <<last'.info>>)
        /\ CommitAt(commits', <<last'.info>>).message = last'.arg
        /\ \A b \in BranchArgs : refs[HEAD] = Sym(b) =>
              /\ refs'[Br(b)] = <<last'.info>>
              /\ refs'[HEAD] = Sym(b)
        /\ is_hash(refs[HEAD]) =>
              /\ refs'[HEAD] = <<last'.info>>
              /\ BranchRefs(refs') = BranchRefs(refs)
              /\ \A n \in BranchRefs(refs) : refs'[n] = refs[n]]_vars

\* A commit made on a detached HEAD, in a repository whose master branch got
\* its commit from a commit made while attached.
C1_Witness ==
    /\ last.op = "commit" /\ last.res = "ok"
    /\ refs[HEAD] = <<last.info>>
    /\ CommitAt(commits, refs[HEAD]).parents # <<>>
    /\ is_hash(refs[Br(<<"master">>)])

\* C2: after a successful checkout(v) of an existing non-empty branch v, HEAD
\* is symbolic to refs/heads/v, get_branch_name is Some(v) and the branch ref
\* holds what it held; after a successful checkout of a commit hash, HEAD
\* holds that hash and get_branch_name is None.  (Branch names are words,
\* not 40-hex strings.)
C2_CheckoutAttachesOrDetaches ==
    [][CheckoutDone =>
        /\ (Br(last'.arg) \in DOMAIN refs /\ refs[Br(last'.arg)] # <<>>) =>
              /\ refs'[HEAD] = Sym(last'.arg)
              /\ get_branch_name(refs')
                    = [res |-> "ok", some |-> TRUE, name |-> last'.arg]
              /\ refs'[Br(last'.arg)] = refs[Br(last'.arg)]
        /\ is_hash(last'.arg) =>
              /\ refs'[HEAD] = last'.arg
              /\ get_branch_name(refs')
                    = [res |-> "ok", some |-> FALSE, name |-> <<>>]]_vars

\* The feature branch checked out by name, from a detached HEAD or from
\* another branch.
C2_Witness ==
    /\ last.op = "checkout" /\ last.res = "ok" /\ last.arg = <<"feature">>
    /\ refs[HEAD] = Sym(<<"feature">>)
    /\ is_hash(refs[Br(<<"feature">>)])

\* C3: a fast-forward merge(other) made while HEAD is symbolic to
\* refs/heads/B sets refs/heads/B to other's commit and leaves HEAD symbolic
\* to refs/heads/B, get_branch_name being Some(B).
C3_FastForwardMovesBranch ==
    [][FastForwardDone =>
        \A b \in BranchArgs : refs[HEAD] = Sym(b) =>
            /\ refs'[Br(b)] = refs[Br(last'.arg)]
            /\ refs'[HEAD] = Sym(b)
            /\ get_branch_name(refs') = [res |-> "ok", some |-> TRUE, name |-> b]]_vars

\* C4: after a successful merge(other) that is not a fast-forward, MERGE_HEAD
\* exists and holds other's commit.
C4_MergeHeadSetAfterThreeWay ==
    (last.op = "merge" /\ last.res = "ok" /\ last.info = "3way") =>
        /\ MERGE_HEAD \in DOMAIN refs
        /\ refs[MERGE_HEAD] = refs[Br(last.arg)]

\* C5: the commit made right after a successful three-way merge(other) has
\* two parents, the commit HEAD resolved to and other's commit, in this order,
\* and leaves no MERGE_HEAD.
C5_CommitAfterMergeHasTwoParents ==
    [][(last.op = "merge" /\ last.res = "ok" /\ last.info = "3way" /\ CommitDone) =>
        /\ CommitAt(commits', <<last'.info>>).parents
              = <<Deref(refs), refs[Br(last.arg)]>>
        /\ MERGE_HEAD \notin DOMAIN refs']_vars

C7_FastForwardReadsOtherTree ==
    [][FastForwardDone =>
        /\ Deref(refs') = refs[Br(last'.arg)]
        /\ worktree' = TreeFiles(CommitAt(commits, refs[Br(last'.arg)]).tree)
        /\ commits' = commits]_vars

\* C8: a successful merge(other) takes the fast-forward path exactly when the
\* commit HEAD resolved to is other's commit or one of its ancestors, through
\* the parents of merge commits too, and the three-way path otherwise.
C8_FastForwardIffAncestor ==
    [][MergeDone =>
        /\ last'.info \in {"ff", "3way"}
        /\ last'.info = "ff"
              <=> Deref(refs) \in Reach(commits, refs[Br(last'.arg)])]_vars

\* A fast-forward from a commit that other's commit, a merge commit, reaches
\* through its second parent only.
C8_Witness ==
    /\ last.op = "merge" /\ last.res = "ok" /\ last.info = "ff"
    /\ last.head # refs[Br(last.arg)]
    /\ Len(CommitAt(commits, refs[Br(last.arg)]).parents) = 2
    /\ last.head \notin Reach(commits, CommitAt(commits, refs[Br(last.arg)]).parents[1])
    /\ last.head \in Reach(commits, CommitAt(commits, refs[Br(last.arg)]).parents[2])

\* C9: get_merge_base(a, b) is a when a = b, and otherwise the first commit,
\* in breadth-first order from a, of a's ancestors that is among b's
\* ancestors; for two commits that are each a child of one commit base alone,
\* it is base.
C9_MergeBaseIsFirstCommon ==
    last.op = "merge_base" =>
        /\ last.res = "ok"
        /\ <<last.info>> =
              (IF last.arg[1] = last.arg[2] THEN <<last.arg[1]>>
               ELSE FirstIn(BfsOrder(commits, <<last.arg[1]>>),
                            Reach(commits, <<last.arg[2]>>)))
        /\ (/\ last.arg[1] # last.arg[2]
            /\ Len(CommitAt(commits, <<last.arg[1]>>).parents) = 1
            /\ CommitAt(commits, <<last.arg[1]>>).parents
                  = CommitAt(commits, <<last.arg[2]>>).parents)
           => <<last.info>> = CommitAt(commits, <<last.arg[1]>>).parents[1]

\* The merge base of a merge commit a and its second parent b, itself a child
\* of a's first parent: the first parent comes first in breadth-first order.
C9_Witness ==
    /\ last.op = "merge_base" /\ last.res = "ok"
    /\ Len(CommitAt(commits, <<last.arg[1]>>).parents) = 2
    /\ CommitAt(commits, <<last.arg[1]>>).parents[2] = <<last.arg[2]>>
    /\ CommitAt(commits, <<last.arg[2]>>).parents
          = <<CommitAt(commits, <<last.arg[1]>>).parents[1]>>
    /\ <<last.info>> = CommitAt(commits, <<last.arg[1]>>).parents[1]

\* C10: after a successful rebase made while HEAD was symbolic to
\* refs/heads/B, refs/heads/B holds a stored commit and HEAD is still symbolic
\* to refs/heads/B; made while HEAD held a hash, HEAD holds a stored commit.
C10_RebaseKeepsHeadAttached ==
    [][RebaseDone =>
        /\ \A b \in BranchArgs : refs[HEAD] = Sym(b) =>
              /\ IsStored(commits', refs'[Br(b)])
              /\ refs'[HEAD] = Sym(b)
        /\ is_hash(refs[HEAD]) => IsStored(commits', refs'[HEAD])]_vars

\* C19: get_commit_ancestors(c) returns a list that starts with c, holds every
\* commit reachable from c through parent links (every parent of a merge
\* commit too) once and nothing else, in breadth-first order from c.
C19_AncestorsBreadthFirst ==
    last.op = "ancestors" =>
        /\ last.res = "ok"
        /\ last.list[1] = last.arg
        /\ Range(last.list) = Reach(commits, last.arg)
        /\ Len(last.list) = Cardinality(Reach(commits, last.arg))
        /\ last.list = BfsOrder(commits, last.arg)

\* The ancestors of a merge commit whose first parent is also the parent of
\* its second parent: that commit is met twice and listed once, before the
\* second parent's own turn comes.
C19_Witness ==
    /\ last.op = "ancestors" /\ last.res = "ok"
    /\ Len(CommitAt(commits, last.arg).parents) = 2
    /\ CommitAt(commits, CommitAt(commits, last.arg).parents[2]).parents
          = <<CommitAt(commits, last.arg).parents[1]>>
    /\ Len(last.list) = 3

\* C12: reset(c), c a stored commit given by its hash while HEAD is symbolic to
\* refs/heads/B, sets refs/heads/B to c, leaves HEAD symbolic to refs/heads/B
\* and every other branch ref and every tag ref as it was, and makes the
\* working tree the directory c's tree describes; the commit made next has c
\* as its only parent.
C12_ResetMovesBranchAndTree ==
    [][/\ ResetDone =>
            \A b \in BranchArgs : refs[HEAD] = Sym(b) =>
                /\ refs'[Br(b)] = last'.arg
                /\ refs'[HEAD] = Sym(b)
                /\ BranchRefs(refs') = BranchRefs(refs)
                /\ \A n \in BranchRefs(refs) \ {Br(b)} : refs'[n] = refs[n]
                /\ TagRefs(refs') = TagRefs(refs)
                /\ \A n \in TagRefs(refs) : refs'[n] = refs[n]
                /\ worktree' = TreeFiles(CommitAt(commits, last'.arg).tree)
       /\ (last.op = "reset" /\ last.res = "ok" /\ CommitDone) =>
            CommitAt(commits', <<last'.info>>).parents = <<last.arg>>]_vars

\* C14: whatever operation runs, the object store only grows: a stored hash
\* keeps naming the same object, and no object is removed.
C14_ObjectStoreOnlyGrows ==
    [][/\ Len(commits') >= Len(commits)
       /\ \A i \in 1..Len(commits) : commits'[i] = commits[i]]_vars

\* A rebase has replayed a commit: the store holds the original and, last,
\* the commit made from it.
C14_Witness ==
    /\ last.op = "rebase" /\ last.res = "ok"
    /\ Len(commits) = MaxCommits
    /\ Deref(refs) = Oid(Len(commits))

C20_ParentsStoredBefore ==
    /\ \A i \in 1..Len(commits) : \A p \in Range(commits[i].parents) :
            IsStored(commits, p) /\ OidIndex(p) < i
    /\ \A c \in StoredOids :
            /\ get_commit_ancestors(refs, commits, c).ok
            /\ Len(get_commit_ancestors(refs, commits, c).val) <= Len(commits)

\* C13: hash_object(b, k) called again returns the same OID and stores nothing
\* more, exactly one stored object holds b under kind k, and get_object of the
\* OID returned gives back exactly b, for every kind k and content b.
C13_HashObjectRoundTrip ==
    [][last'.op = "hash_object" =>
        /\ hash_object_bytes(commits', last'.data, last'.kind).oid = last'.oid
        /\ hash_object_bytes(commits', last'.data, last'.kind).commits = commits'
        /\ Cardinality({i \in 1..Len(commits') :
                commits'[i] = Header(last'.kind, last'.data) \o last'.data}) = 1
        /\ commits'[OidIndex(last'.oid)] = Header(last'.kind, last'.data) \o last'.data
        /\ get_object(refs', commits', last'.oid) = OkStr(last'.data)
        /\ (\E i \in 1..Len(commits) : commits[i] = commits'[OidIndex(last'.oid)])
              => commits' = commits]_vars

\* A tree object holding a NUL and a blank is hashed a second time, with other
\* objects stored.
C13_Witness ==
    /\ last.op = "hash_object"
    /\ last.kind = "tree"
    /\ last.data = <<120, NUL, SP, 121>>
    /\ last.stored = Len(commits)
    /\ Len(commits) = MaxObjects

\* C15: read_tree(create_tree(D), D2) leaves D2 equal to D, paths and contents,
\* for every directory D of nested directories without ignored entries, names
\* with a blank included (D2 holding no ignored path either).
C15_TreeRoundTrip ==
    [][(last'.op = "read_tree" /\ worktree \in Dirs) =>
        \A D \in Dirs, order \in Enumerations :
            create_tree_bytes(commits, D, <<>>, order) = [commits |-> commits, oid |-> last'.oid]
                => (last'.res = "ok" /\ worktree' = D)]_vars

\* C16: create_tree returns the same tree OID whatever the order the entries
\* of the directories are enumerated in.
C16_CreateTreeOrderIndependent ==
    [][last'.op = "create_tree" =>
        \A order \in Enumerations :
            create_tree_bytes(commits', worktree', <<>>, order)
                = [commits |-> commits', oid |-> last'.oid]]_vars

\* The tree of a directory with a file and a subdirectory is made again,
\* enumerating in descending order.
C16_Witness ==
    /\ last.op = "create_tree"
    /\ last.order = <<DotGit, NameAB, NameA>>
    /\ last.stored = Len(commits)
    /\ DOMAIN worktree = EntryNames
    /\ worktree[NameA].kind = "file"
    /\ worktree[NameAB] = Dir(NameA :> File(<<121>>))

\* C17: every stored tree object lists its entries in ascending byte-wise
\* order of their names, files and subdirectories alike.
C17_EntriesSortedByName ==
    \A i \in 1..Len(commits) :
        IsTreeObject(commits[i]) => NamesAscending(EntriesOf(ContentOf(commits, Oid(i))))

\* C18: after a successful read_tree(t, dir), every path of dir that was not
\* ignored and is not in t is gone, every entry of t is there with its stored
\* content, and every ignored path of dir is as it was.
C18_ReadTreeReplacesAllButIgnored ==
    [][(last'.op = "read_tree" /\ last'.res = "ok") =>
        /\ \A p \in PathsOf(worktree) :
              (~is_ignored(p) /\ p \notin PathsOf(DirOf(commits, last'.oid)))
                  => p \notin PathsOf(worktree')
        /\ Listing(DirOf(commits, last'.oid), <<>>) \subseteq Listing(worktree', <<>>)
        /\ \A e \in Listing(worktree, <<>>) :
              is_ignored(e.path) => e \in Listing(worktree', <<>>)]_vars

\* C21: on a linear history c1 <- ... <- cn, iter_commits_and_parents([cn])
\* returns cn, ..., c1, newest first, each commit once.
C21_LogNewestFirst ==
    (last.op = "iter" /\ Len(last.arg) = 1 /\ IsLinear(commits, last.arg[1])) =>
        /\ last.res = "ok"
        /\ last.list = Lineage(commits, last.arg[1])
        /\ NoRepeats(last.list)
        /\ \A i \in 1..(Len(last.list) - 1) :
              CommitAt(commits, last.list[i]).parents = <<last.list[i + 1]>>

\* The walk from the last commit of a chain of MaxGraph commits.
C21_Witness ==
    /\ last.op = "iter"
    /\ last.arg = <<Oid(MaxGraph)>>
    /\ IsLinear(commits, Oid(MaxGraph))
    /\ Len(last.list) = MaxGraph

\* C22: iter_commits_and_parents(oids) returns the union of the ancestor sets
\* of the starting commits, each commit once, in breadth-first order from the
\* starting commits, merge commits and several starting commits included.
C22_IterBreadthFirst ==
    last.op = "iter" =>
        /\ last.res = "ok"
        /\ Range(last.list) = Closure(commits, Range(last.arg))
        /\ NoRepeats(last.list)
        /\ last.list = BfsLevels(commits, Fresh(last.arg, {}), Fresh(last.arg, {}))

\* C23: set_ref(name, value, deref = true) writes at the location L the chain
\* of the symbolic ref name ends at, leaving name as it is, when L exists and
\* is not name; it writes at name when name does not exist yet; with
\* deref = false it always writes at name.
C23_SetRefLocation ==
    [][last'.op = "set_ref" =>
        /\ (last'.deref /\ last'.name \in DOMAIN refs /\ IsSymbolicRef(refs, last'.name)
              /\ EndOfChain(refs, last'.name) # <<>>)
             => /\ EndOfChain(refs, last'.name) # last'.name
                /\ WrittenAt(refs, refs', EndOfChain(refs, last'.name), Written(last'.value))
                /\ refs'[last'.name] = refs[last'.name]
        /\ (last'.deref /\ last'.name \notin DOMAIN refs)
             => WrittenAt(refs, refs', last'.name, Written(last'.value))
        /\ ~last'.deref => WrittenAt(refs, refs', last'.name, Written(last'.value))]_vars

\* A hash was written through HEAD, which names feature, which names master.
C23_Witness ==
    /\ last.op = "set_ref" /\ last.deref /\ last.name = HEAD
    /\ refs[HEAD] = <<"ref:", "refs", "heads", "feature">>
    /\ <<"refs", "heads", "feature">> \in DOMAIN refs
    /\ refs[<<"refs", "heads", "feature">>] = <<"ref:", "refs", "heads", "master">>
    /\ last.value = RefValue(Oid(2), FALSE)
    /\ refs[<<"refs", "heads", "master">>] = Oid(2)

\* C24: get_oid_hash(v) returns v when v is a hash; otherwise, with '@' read
\* as HEAD, it returns the dereferenced value of the first of v, refs/v,
\* refs/tags/v, refs/heads/v that resolves (the tag before the branch), and
\* fails when none does.
C24_OidHashResolution ==
    last.op = "get_oid_hash" =>
        IF Len(last.arg) = 1 /\ last.arg[1] \in OidTokens
        THEN last.res = "ok" /\ last.val = last.arg
        ELSE \A w \in {IF last.arg = <<"@">> THEN HEAD ELSE last.arg} :
             \A resolving \in {{i \in 1..4 : EndOfChain(refs, Candidates(w)[i]) # <<>>}} :
                IF resolving = {} THEN last.res = "err"
                ELSE /\ last.res = "ok"
                     /\ last.val = refs[EndOfChain(refs, Candidates(w)[Min(resolving)])]

\* The name v is a tag and a branch with different hashes, and nothing else:
\* the lookup of v gave the tag's hash.
C24_Witness ==
    /\ last.op = "get_oid_hash" /\ last.arg = NameV /\ last.res = "ok"
    /\ NameV \notin DOMAIN refs /\ <<"refs", "v">> \notin DOMAIN refs
    /\ <<"refs", "tags", "v">> \in DOMAIN refs /\ <<"refs", "heads", "v">> \in DOMAIN refs
    /\ refs[<<"refs", "tags", "v">>] = Oid(6)
    /\ refs[<<"refs", "heads", "v">>] = Oid(7)
    /\ last.val = Oid(6)

\* C25: compare_trees returns exactly one row for every path that occurs at
\* any depth in any input tree, slot i holding the OID of the path in tree i
\* or None: the result of a plain recursive walk of each input, also when a
\* tree holds the same subtree OID at several paths and when an input is the
\* empty-string root.
C25_CompareTreesIsPlainWalk ==
    Compared =>
        /\ DOMAIN last.rows =
               UNION { {e.path : e \in WalkOf(commits, last.trees[i], <<>>)}
                       : i \in 1..Len(last.trees) }
        /\ \A p \in DOMAIN last.rows : \A i \in 1..Len(last.trees) :
               last.rows[p].oids[i] = WalkedAt(WalkOf(commits, last.trees[i], <<>>), p)

\* C26: diff_trees of a tree and itself is empty, and diff_trees of two trees
\* is non-empty exactly when the two are different trees (their OIDs differ).
C26_DiffNonEmptyIffDifferent ==
    (Diffed /\ last.old # <<>> /\ last.new # <<>>) =>
        (last.out # <<>> <=> last.old # last.new)

\* C27: in merge_trees(head, other, base) a path that base holds and neither
\* head nor other holds is not a key of the result, and every file path of
\* head or other is a key mapped to merged content.
C27_MergeTreesKeys ==
    MergedTrees =>
        /\ \A p \in TreePaths(commits, worktree.base)
                    \ (TreePaths(commits, worktree.head)
                       \cup TreePaths(commits, worktree.other)) :
               p \notin DOMAIN last.tree
        /\ \A p \in FilePaths(commits, worktree.head)
                    \cup FilePaths(commits, worktree.other) :
               p \in DOMAIN last.tree /\ last.tree[p].kind = "file"

C30_BlankCommitChangesNothing ==
    [][\A m \in Blanks : \A ts \in Clock :
        Commit(worktree, m, ts) =>
            /\ last'.res = "err"
            /\ commits' = commits
            /\ refs' = refs]_vars

\* A commit with a blank message was refused in a repository that holds
\* commits.
C30_Witness ==
    /\ last.op = "commit" /\ last.res = "err"
    /\ commits # <<>>
    /\ \E b \in BranchRefs(refs) : is_hash(refs[b])

\* C31: when no merge is in progress (MERGE_HEAD does not exist), a commit
\* records as its only parent the commit HEAD resolved to before the call, and
\* no parent when HEAD resolved to no commit.
C31_CommitParentIsHead ==
    [][(CommitDone /\ MERGE_HEAD \notin DOMAIN refs) =>
        CommitAt(commits', <<last'.info>>).parents
            = IF HeadHasCommit(refs) THEN <<Deref(refs)>> ELSE <<>>]_vars

\* A commit was made on top of the first commit.
C31_Witness ==
    /\ last.op = "commit" /\ last.res = "ok"
    /\ Len(commits) >= 2
    /\ CommitAt(commits, <<last.info>>).parents = <<Oid(1)>>
    /\ <<last.info>> # Oid(1)

\* C32: read_tree_merged fails whenever the merged entries need one path to be
\* a file and a directory, as when head holds a file at a path where other
\* holds a directory; neither side is dropped silently.
C32_TypeClashFails ==
    (ReadMerged /\ TypeClash(commits, worktree.head, worktree.other)) => last.res = "err"

\* C33: merge reports every failure as an error returned to the caller (the
\* name is no branch, HEAD resolves to no commit, the tips have no common
\* ancestor): it never aborts the process.
C33_MergeFailuresAreErrors ==
    last.op = "merge" => last.res \in {"ok", "err"}

\* C34: rebase replays the commits of the current branch oldest first: no
\* commit is replayed before one of its own parents that is replayed too,
\* whatever the shape of the branch, merge commits included.
C34_ReplayParentsFirst ==
    [][RebaseDone =>
        \A i \in (Len(commits) + 1)..Len(commits') :
        \A j \in (Len(commits) + 1)..Len(commits') :
            Oid(Original(commits, commits'[j]))
                \in Range(commits[Original(commits, commits'[i])].parents) => j < i]_vars


RefsHoldCommits(rs, cs) ==
    /\ HEAD \in DOMAIN rs
    /\ is_hash(Deref(rs)) /\ IsStored(cs, Deref(rs))
    /\ \A n \in BranchRefs(rs) :
          rs[n] # <<>> => is_hash(rs[n]) /\ IsStored(cs, rs[n])

\* C36: once the current branch has a commit, every successful command on
\* commit OIDs and ref names leaves HEAD dereferenced and every non-empty
\* branch ref holding the hash of a stored commit.
C36_RefsStayCommitHashes ==
    [][(RefsHoldCommits(refs, commits) /\ last'.res = "ok")
          => RefsHoldCommits(refs', commits')]_vars


\* C37: after every successful checkout the working tree holds the tree of
\* the commit HEAD resolves to afterwards, also when the argument names both
\* a tag and a branch.
C37_CheckoutTreeIsHeadTree ==
    [][CheckoutDone =>
          /\ IsStored(commits', Deref(refs'))
          /\ worktree' = TreeFiles(CommitAt(commits', Deref(refs')).tree)]_vars


\* C38: a merge that is not a fast-forward stores no commit and leaves every
\* ref other than MERGE_HEAD as it was: HEAD, the current branch, the merged
\* branch and every other ref.
C38_ThreeWayKeepsRefs ==
    [][(MergeDone /\ last'.info = "3way") =>
          /\ commits' = commits
          /\ (DOMAIN refs') \ {MERGE_HEAD} = (DOMAIN refs) \ {MERGE_HEAD}
          /\ \A n \in (DOMAIN refs) \ {MERGE_HEAD} : refs'[n] = refs[n]]_vars

\* A three-way merge has returned after changing the working tree.
C38_Witness ==
    /\ last.op = "merge" /\ last.res = "ok" /\ last.info = "3way"
    /\ Deref(refs) # refs[Br(last.arg)]
    /\ worktree # TreeFiles(CommitAt(commits, Deref(refs)).tree)


\* The file is in the base directory, missing on one side and unchanged on
\* the other.
DeletedOnOneSide(base, mine, yours, p) ==
    /\ p \in DOMAIN base
    /\ \/ p \notin DOMAIN mine /\ p \in DOMAIN yours /\ yours[p] = base[p]
       \/ p \notin DOMAIN yours /\ p \in DOMAIN mine /\ mine[p] = base[p]

\* The directory of the commit a hash names.
FilesAt(cs, oid) == TreeFiles(CommitAt(cs, oid).tree)

\* C39: after a three-way merge, a file of the merge base that one side
\* deleted and the other side left unchanged is not in the working tree.
C39_DeletionIsTaken ==
    [][(MergeDone /\ last'.info = "3way") =>
          \A p \in FileNames :
              DeletedOnOneSide(
                  FilesAt(commits, get_merge_base(refs, commits, Deref(refs),
                                                  refs[Br(last'.arg)]).val),
                  FilesAt(commits, Deref(refs)),
                  FilesAt(commits, refs[Br(last'.arg)]), p)
              => p \notin DOMAIN worktree']_vars


\* What a directory holds under a name, if anything.
FileIn(dir, p) == IF p \in DOMAIN dir THEN <<dir[p]>> ELSE <<>>

\* A commit of the branch changed the file against its parent.
BranchModified(cs, p) ==
    \/ FileIn(FilesAt(cs, Oid(3)), p) # FileIn(FilesAt(cs, Oid(1)), p)
    \/ FileIn(FilesAt(cs, Oid(4)), p) # FileIn(FilesAt(cs, Oid(3)), p)

\* The target changed the file against the merge base.
TargetModified(cs, p) == FileIn(FilesAt(cs, Oid(2)), p) # FileIn(FilesAt(cs, Oid(1)), p)

====
